---- MODULE Spec2Model ----
(***************************************************************************)
(* A model of the API spec drift monitor: the route index (ApiValidator),  *)
(* the contract compiler (spec/builder.rs), the reference resolver, the    *)
(* drift classifier and the parameter / request body / response body       *)
(* validators.                                                             *)
(***************************************************************************)
EXTENDS Integers, Sequences, FiniteSets, TLC

VARIABLES
    router,      \* ApiValidator.router: the routes and their method maps
    registered,  \* history: the last validator each successful add_operation(p, m, v) gave (p, m)
    adds,        \* history: the number of add_operation calls made
    found,       \* the OperationValidator the last successful find_operation returned
    foundParams, \* the matchit::Params the last successful find_operation returned
    call,        \* history: the last call made and its arguments
    result,      \* what the last call returned: Ok or a ValidationError
    contract,    \* the parsed OpenAPI document build_api_validator is given
    pc,          \* where build_api_validator is: start, path, op, done or failed
    path_idx,    \* build_api_validator: the path the outer loop is at
    op_idx,      \* build_api_validator: the operation the inner loop is at
    operations_map,       \* build_api_validator: the method map of the path being built
    registry,             \* build_api_validator: the registry build_registry returned
    total_operations,     \* build_api_validator: the operations counted up front
    completed_operations, \* build_api_validator: the operations built so far
    threads      \* the concurrent callers of the index build_api_validator returned

routeVars == <<router, registered, adds>>

buildVars ==
    <<contract, pc, path_idx, op_idx, operations_map, registry,
      total_operations, completed_operations>>

vars == <<router, registered, adds, found, foundParams, call, result, buildVars, threads>>

-----------------------------------------------------------------------------
(* Bounds of the model *)

MaxAdds == 3

MaxParams == 2

-----------------------------------------------------------------------------
(* error.rs: ValidationError; the Ok value of Result<(), ValidationError> *)

ErrorKinds == {"ValidationFailed", "RequestBodyMissing", "NoSchemaForStatusCode", "SchemaCompilationError"}

Ok == [kind |-> "Ok", msg |-> "", findings |-> <<>>, args |-> <<>>]

Err(kind, msg) == [kind |-> kind, msg |-> msg, findings |-> <<>>, args |-> <<>>]

\* an error whose message is format!(msg, args..): args are the texts formatted in
ErrFmt(kind, msg, args) == [kind |-> kind, msg |-> msg, findings |-> <<>>, args |-> args]

\* ValidationFailed carrying the joined drift messages
DriftErr(findings) ==
    [kind |-> "ValidationFailed", msg |-> "drift", findings |-> findings, args |-> <<>>]

-----------------------------------------------------------------------------
(* api_validator.rs: HttpMethod *)

HttpMethod == {"GET", "POST", "PUT", "DELETE", "PATCH", "HEAD", "OPTIONS", "TRACE"}

-----------------------------------------------------------------------------
(* The matchit router behind ApiValidator: a path is a sequence of segments, *)
(* a route pattern a sequence of static segments and {name} parameters.      *)

StaticSegs == {"users", "me", "42"}

ParamSegs == {"{id}", "{name}"}

\* a parameter with no name, which Router::insert rejects
BadSegs == {"{}"}

ParamName(seg) == IF seg = "{id}" THEN "id" ELSE "name"

IsParam(seg) == seg \in ParamSegs

\* the route patterns and the request paths the model registers and looks up
Patterns ==
    { <<"users">>, <<"users", "{id}">>, <<"users", "me">>,
      <<"users", "{name}">>, <<"users", "{}">> }

ConcretePaths ==
    { <<"users">>, <<"users", "me">>, <<"users", "42">>, <<"me">>, <<"users", "42", "me">> }

NoRoute == <<>>

EmptyRouter == [routes |-> {}, ops |-> {}]

\* one route matches a path: same number of segments, static segments equal
Matches(pattern, path) ==
    /\ Len(pattern) = Len(path)
    /\ \A i \in 1..Len(path) : IsParam(pattern[i]) \/ pattern[i] = path[i]

\* matchit prefers a static segment to a parameter, leftmost segment first
Prefers(p, q) ==
    \E i \in 1..Len(p) :
        /\ ~IsParam(p[i]) /\ IsParam(q[i])
        /\ \A j \in 1..(i - 1) : IsParam(p[j]) <=> IsParam(q[j])

\* two patterns that differ at most in the names of their parameters
SameShape(p, q) ==
    /\ Len(p) = Len(q)
    /\ \A i \in 1..Len(p) : (IsParam(p[i]) /\ IsParam(q[i])) \/ p[i] = q[i]

\* Router::at / Router::at_mut: the route that matches the path, or NoRoute
RouterAt(routes, path) ==
    LET ms == {p \in routes : Matches(p, path)}
    IN  IF ms = {} THEN NoRoute
        ELSE CHOOSE p \in ms : \A q \in ms \ {p} : Prefers(p, q)

\* Router::insert fails on a malformed pattern and on a conflicting route
InsertFails(routes, pattern) ==
    \/ \E i \in 1..Len(pattern) : pattern[i] \in BadSegs
    \/ \E q \in routes : SameShape(pattern, q)

\* matchit::Params of a match: parameter name -> segment of the path
ParamsOf(pattern, path) ==
    { <<ParamName(pattern[i]), path[i]>> : i \in {j \in 1..Len(pattern) : IsParam(pattern[j])} }

\* HashMap::insert on the method map of one route: the old entry of the key goes
HashMapInsertBroken(ops, pattern, method, validator) ==
    ops \cup {[pattern |-> pattern, method |-> method, validator |-> validator]}

HashMapInsert(ops, pattern, method, validator) ==
    {e \in ops : ~(e.pattern = pattern /\ e.method = method)}
        \cup {[pattern |-> pattern, method |-> method, validator |-> validator]}

\* ApiValidator::add_operation: the router after the call and what it returns
AddOperationRouter(r, path, method, validator) ==
    LET matched == RouterAt(r.routes, path)
    IN  IF matched # NoRoute
        THEN [r EXCEPT !.ops = HashMapInsert(r.ops, matched, method, validator)]
        ELSE IF InsertFails(r.routes, path) THEN r
        ELSE [routes |-> r.routes \cup {path},
              ops |-> HashMapInsert(r.ops, path, method, validator)]

AddOperationResult(r, path, method) ==
    IF RouterAt(r.routes, path) # NoRoute THEN Ok
    ELSE IF InsertFails(r.routes, path)
         THEN Err("SchemaCompilationError", "Failed to add route")
         ELSE Ok

\* ApiValidator::find_operation: what it returns
MethodMap(r, pattern) == {e \in r.ops : e.pattern = pattern}

FindOperationResult(r, path, method) ==
    LET matched == RouterAt(r.routes, path)
    IN  IF matched = NoRoute
        THEN Err("ValidationFailed", "No route found for path")
        ELSE IF \A e \in MethodMap(r, matched) : e.method # method
             THEN Err("ValidationFailed", "Method not allowed for path")
             ELSE Ok

FindOperationValidator(r, path, method) ==
    LET matched == RouterAt(r.routes, path)
    IN  (CHOOSE e \in MethodMap(r, matched) : e.method = method).validator

FindOperationParams(r, path) == ParamsOf(RouterAt(r.routes, path), path)

\* a lookup that takes the validator it returns out of the method map
FindOperationRouterEvicts(r, path, method) ==
    LET matched == RouterAt(r.routes, path)
    IN  [r EXCEPT !.ops = {e \in @ : ~(e.pattern = matched /\ e.method = method)}]

\* ApiValidator::find_operation borrows &self and reads with Router::at: the
\* router after the call is the router before it
FindOperationRouter(r, path, method) == r

-----------------------------------------------------------------------------
(* JSON values and the structural schema validator (jsonschema::Validator):  *)
(* a value is an integer, a string (known by its length) or an object with   *)
(* the properties of PropNames; a schema has the keywords listed in kw.       *)

PropNames == {"username", "age"}

Absent == [t |-> "absent", n |-> 0]

JInt(n) == [t |-> "integer", n |-> n]

JStr(len) == [t |-> "string", n |-> len]

NoProps == [p \in PropNames |-> Absent]

\* a top-level value: a scalar, or an object with properties
Scalar(v) == [t |-> v.t, n |-> v.n, props |-> NoProps]

JObject(username, age) ==
    [t |-> "object", n |-> 0, props |-> [p \in PropNames |-> IF p = "username" THEN username ELSE age]]

\* the kinds of finding the structural validator reports (ValidationErrorKind)
ValidationErrorKind ==
    {"Type", "Required", "Enum", "OneOfNotValid", "AnyOf",
     "OneOfMultipleValid", "Minimum", "Maximum", "MinLength", "Pattern", "Format"}

\* a schema of one property or parameter
PropertySchema(type, kw, minimum, maximum, minLength, enum, alts) ==
    [type |-> type, kw |-> kw, minimum |-> minimum, maximum |-> maximum,
     minLength |-> minLength, enum |-> enum, alts |-> alts]

AnySchema == PropertySchema("any", {}, 0, 0, 0, {}, {})

\* a top-level schema: the keywords of a property schema, and required / properties
TopSchema(s, required, properties) ==
    [type |-> s.type, kw |-> s.kw, minimum |-> s.minimum, maximum |-> s.maximum,
     minLength |-> s.minLength, enum |-> s.enum, alts |-> s.alts,
     required |-> required, properties |-> properties]

ScalarSchema(s) == TopSchema(s, <<>>, [p \in PropNames |-> AnySchema])

JsonTypes == {"integer", "number", "string", "object"}

\* a schema the compiler accepts: every type it names is a JSON type
WellFormed(schema) ==
    /\ ("type" \in schema.kw) => schema.type \in JsonTypes
    /\ ("properties" \in schema.kw) =>
        \A p \in PropNames :
            ("type" \in schema.properties[p].kw) => schema.properties[p].type \in JsonTypes

HasType(v, type) ==
    \/ v.t = type
    \/ (type = "number" /\ v.t = "integer")

Finding(kind, path) == [kind |-> kind, path |-> path]

Opt(cond, x) == IF cond THEN <<x>> ELSE <<>>

\* the findings of the keywords of one (property) schema on one value, at a path
KeywordErrors(s, v, path) ==
    LET matching == {a \in s.alts : HasType(v, a)}
    IN  Opt("anyOf" \in s.kw /\ matching = {}, Finding("AnyOf", path))
     \o Opt("enum" \in s.kw /\ [t |-> v.t, n |-> v.n] \notin s.enum, Finding("Enum", path))
     \o Opt("maximum" \in s.kw /\ v.t = "integer" /\ v.n > s.maximum, Finding("Maximum", path))
     \o Opt("minLength" \in s.kw /\ v.t = "string" /\ v.n < s.minLength, Finding("MinLength", path))
     \o Opt("minimum" \in s.kw /\ v.t = "integer" /\ v.n < s.minimum, Finding("Minimum", path))
     \o Opt("oneOf" \in s.kw /\ matching = {}, Finding("OneOfNotValid", path))
     \o Opt("oneOf" \in s.kw /\ Cardinality(matching) > 1, Finding("OneOfMultipleValid", path))

TypeErrors(s, v, path) ==
    Opt("type" \in s.kw /\ ~HasType(v, s.type), Finding("Type", path))

PropertyErrors(s, v, path) == KeywordErrors(s, v, path) \o TypeErrors(s, v, path)

RECURSIVE RequiredErrors(_, _)
RequiredErrors(required, v) ==
    IF required = <<>> THEN <<>>
    ELSE Opt(v.props[Head(required)] = Absent, Finding("Required", ""))
            \o RequiredErrors(Tail(required), v)

PropErrorsOf(schema, v, p, path) ==
    IF v.props[p] = Absent THEN <<>> ELSE PropertyErrors(schema.properties[p], v.props[p], path)

\* Validator::iter_errors: the findings of a schema on a value, in keyword order
IterErrors(schema, v) ==
    KeywordErrors(schema, v, "")
     \o (IF "properties" \in schema.kw /\ v.t = "object"
         THEN PropErrorsOf(schema, v, "age", "/age") \o PropErrorsOf(schema, v, "username", "/username")
         ELSE <<>>)
     \o (IF "required" \in schema.kw /\ v.t = "object"
         THEN RequiredErrors(schema.required, v)
         ELSE <<>>)
     \o TypeErrors(schema, v, "")

\* Validator::is_valid
IsValid(schema, v) == IterErrors(schema, v) = <<>>

-----------------------------------------------------------------------------
(* drift_types.rs *)

ValidationContext == {"Parameter", "RequestBody", "ResponseBody"}

NoDrift == "None"

DriftName(context, suffix) ==
    IF context = "Parameter" THEN
        (IF suffix = "TypeMismatch" THEN "ParameterTypeMismatch"
         ELSE IF suffix = "MissingRequired" THEN "ParameterMissingRequired"
         ELSE IF suffix = "EnumViolation" THEN "ParameterEnumViolation"
         ELSE IF suffix = "OneOfNoMatch" THEN "ParameterOneOfNoMatch"
         ELSE "ParameterAnyOfNoMatch")
    ELSE IF context = "RequestBody" THEN
        (IF suffix = "TypeMismatch" THEN "RequestBodyTypeMismatch"
         ELSE IF suffix = "MissingRequired" THEN "RequestBodyMissingRequired"
         ELSE IF suffix = "EnumViolation" THEN "RequestBodyEnumViolation"
         ELSE IF suffix = "OneOfNoMatch" THEN "RequestBodyOneOfNoMatch"
         ELSE "RequestBodyAnyOfNoMatch")
    ELSE
        (IF suffix = "TypeMismatch" THEN "ResponseBodyTypeMismatch"
         ELSE IF suffix = "MissingRequired" THEN "ResponseBodyMissingRequired"
         ELSE IF suffix = "EnumViolation" THEN "ResponseBodyEnumViolation"
         ELSE IF suffix = "OneOfNoMatch" THEN "ResponseBodyOneOfNoMatch"
         ELSE "ResponseBodyAnyOfNoMatch")

\* a classifier that also tags numeric bounds and lengths as type mismatches
map_to_drift_type_bounds(kind, context) ==
    IF kind \in {"Type", "Minimum", "Maximum", "MinLength"} THEN DriftName(context, "TypeMismatch")
    ELSE IF kind = "Required" THEN DriftName(context, "MissingRequired")
    ELSE IF kind = "Enum" THEN DriftName(context, "EnumViolation")
    ELSE IF kind = "OneOfNotValid" THEN DriftName(context, "OneOfNoMatch")
    ELSE IF kind = "AnyOf" THEN DriftName(context, "AnyOfNoMatch")
    ELSE NoDrift

\* a classifier that ignores the context and always answers in the response context
map_to_drift_type_response(kind, context) ==
    IF kind = "Type" THEN DriftName("ResponseBody", "TypeMismatch")
    ELSE IF kind = "Required" THEN DriftName("ResponseBody", "MissingRequired")
    ELSE IF kind = "Enum" THEN DriftName("ResponseBody", "EnumViolation")
    ELSE IF kind = "OneOfNotValid" THEN DriftName("ResponseBody", "OneOfNoMatch")
    ELSE IF kind = "AnyOf" THEN DriftName("ResponseBody", "AnyOfNoMatch")
    ELSE NoDrift

\* a classifier with the arms of required and enum exchanged
map_to_drift_type_swapped(kind, context) ==
    IF kind = "Type" THEN DriftName(context, "TypeMismatch")
    ELSE IF kind = "Required" THEN DriftName(context, "EnumViolation")
    ELSE IF kind = "Enum" THEN DriftName(context, "MissingRequired")
    ELSE IF kind = "OneOfNotValid" THEN DriftName(context, "OneOfNoMatch")
    ELSE IF kind = "AnyOf" THEN DriftName(context, "AnyOfNoMatch")
    ELSE NoDrift

map_to_drift_type(kind, context) ==
    IF kind = "Type" THEN DriftName(context, "TypeMismatch")
    ELSE IF kind = "Required" THEN DriftName(context, "MissingRequired")
    ELSE IF kind = "Enum" THEN DriftName(context, "EnumViolation")
    ELSE IF kind = "OneOfNotValid" THEN DriftName(context, "OneOfNoMatch")
    ELSE IF kind = "AnyOf" THEN DriftName(context, "AnyOfNoMatch")
    ELSE NoDrift

DriftFinding(drift, prefix, path) == [drift |-> drift, location |-> <<prefix, path>>]

\* a collection that puts each classified finding before the ones found earlier
RECURSIVE FilterMapDriftReversed(_, _, _)
FilterMapDriftReversed(errors, context, prefix) ==
    IF errors = <<>> THEN <<>>
    ELSE LET e == Head(errors)
             d == map_to_drift_type(e.kind, context)
         IN  FilterMapDriftReversed(Tail(errors), context, prefix)
                \o Opt(d # NoDrift, DriftFinding(d, prefix, e.path))

\* iter_errors(value).filter_map(map_to_drift_type ...).collect()
RECURSIVE FilterMapDrift(_, _, _)
FilterMapDrift(errors, context, prefix) ==
    IF errors = <<>> THEN <<>>
    ELSE LET e == Head(errors)
             d == map_to_drift_type(e.kind, context)
         IN  Opt(d # NoDrift, DriftFinding(d, prefix, e.path))
                \o FilterMapDrift(Tail(errors), context, prefix)

\* the body shared by the three validate functions on a present value
ValidateValue(schema, v, context, prefix) ==
    IF IsValid(schema, v) THEN Ok
    ELSE LET drift_errors == FilterMapDrift(IterErrors(schema, v), context, prefix)
         IN  IF drift_errors = <<>> THEN Ok ELSE DriftErr(drift_errors)

-----------------------------------------------------------------------------
(* validators/parameter.rs *)

ParameterValidator(name, required, schema) ==
    [name |-> name, required |-> required, validator |-> schema]

EmptyParametersValidator == [path |-> <<>>, query |-> <<>>, header |-> <<>>]

\* ParameterValidator::validate
ParameterValidate(pv, value) == ValidateValue(pv.validator, value, "Parameter", pv.name)

NoValue == Scalar(Absent)

\* a walk that also flags an observed entry no declared parameter has consumed
RECURSIVE validate_parameters_strict(_, _)
validate_parameters_strict(validators, params) ==
    IF validators = <<>>
    THEN IF \E n \in DOMAIN params : params[n] # NoValue
         THEN DriftErr(<<DriftFinding("ParameterTypeMismatch",
                                      CHOOSE n \in DOMAIN params : params[n] # NoValue, "")>>)
         ELSE Ok
    ELSE LET validator == Head(validators)
             rest == [params EXCEPT ![validator.name] = NoValue]
         IN  IF params[validator.name] # NoValue
             THEN LET r == ParameterValidate(validator, params[validator.name])
                  IN  IF r.kind # "Ok" THEN r
                      ELSE validate_parameters_strict(Tail(validators), rest)
             ELSE IF validator.required
                  THEN DriftErr(<<DriftFinding("ParameterMissingRequired", validator.name, "")>>)
                  ELSE validate_parameters_strict(Tail(validators), rest)

\* ParametersValidator::validate_parameters: params maps a name to a value or NoValue
RECURSIVE validate_parameters(_, _)
validate_parameters(validators, params) ==
    IF validators = <<>> THEN Ok
    ELSE LET validator == Head(validators)
         IN  IF params[validator.name] # NoValue
             THEN LET r == ParameterValidate(validator, params[validator.name])
                  IN  IF r.kind # "Ok" THEN r
                      ELSE validate_parameters(Tail(validators), params)
             ELSE IF validator.required
                  THEN DriftErr(<<DriftFinding("ParameterMissingRequired", validator.name, "")>>)
                  ELSE validate_parameters(Tail(validators), params)

validate_path(pv, params) == validate_parameters(pv.path, params)

validate_query(pv, params) == validate_parameters(pv.query, params)

validate_headers(pv, params) == validate_parameters(pv.header, params)

-----------------------------------------------------------------------------
(* validators/request.rs *)

RequestBodyValidator(schema, required) == [present |-> TRUE, schema |-> schema, required |-> required]

\* OperationValidator.request_body = None
NoRequestBodyValidator == [present |-> FALSE, schema |-> ScalarSchema(AnySchema), required |-> FALSE]

NoBody == Scalar(Absent)

\* a validator that hands an absent body to the schema like any value
RequestBodyValidateAbsentAsValue(rv, body) ==
    ValidateValue(rv.schema, body, "RequestBody", "body")

\* RequestBodyValidator::validate: body is a value, or NoBody for None
RequestBodyValidate(rv, body) ==
    IF body = NoBody
    THEN IF rv.required
         THEN DriftErr(<<DriftFinding("RequestBodyMissingRequired", "body", "")>>)
         ELSE Ok
    ELSE ValidateValue(rv.schema, body, "RequestBody", "body")

-----------------------------------------------------------------------------
(* validators/response.rs *)

NoDefault == [present |-> FALSE, schema |-> ScalarSchema(AnySchema)]

EmptyResponseValidator == [exact |-> {}, default |-> NoDefault]

\* ResponseValidator::add_response, after the schema compiled
AddResponse(rv, status_code, schema) ==
    [rv EXCEPT !.exact = {e \in rv.exact : e.status # status_code}
                            \cup {[status |-> status_code, schema |-> schema]}]

\* ResponseValidator::set_default, after the schema compiled
SetDefault(rv, schema) == [rv EXCEPT !.default = [present |-> TRUE, schema |-> schema]]

HasExact(rv, status_code) == \E e \in rv.exact : e.status = status_code

HasSchemaFor(rv, status_code) == HasExact(rv, status_code) \/ rv.default.present

\* a selection that prefers the default schema to the exact one
SelectSchemaDefaultFirst(rv, status_code) ==
    IF rv.default.present
    THEN rv.default.schema
    ELSE (CHOOSE e \in rv.exact : e.status = status_code).schema

\* self.exact.get(&status_code).or(self.default.as_ref())
SelectSchema(rv, status_code) ==
    IF HasExact(rv, status_code)
    THEN (CHOOSE e \in rv.exact : e.status = status_code).schema
    ELSE rv.default.schema

\* ResponseValidator::validate
ResponseValidate(rv, status_code, body) ==
    IF ~HasSchemaFor(rv, status_code)
    THEN Err("NoSchemaForStatusCode", "No schema defined for status code")
    ELSE IF body = NoBody THEN Ok
    ELSE ValidateValue(SelectSchema(rv, status_code), body, "ResponseBody", "body")

-----------------------------------------------------------------------------
(* api_validator.rs: OperationValidator *)

OperationValidator(request_body, responses, parameters) ==
    [request_body |-> request_body, responses |-> responses, parameters |-> parameters]

-----------------------------------------------------------------------------
(* The route index under any sequence of add_operation and find_operation calls *)

RouteMethods == {"GET", "POST"}

NoCall == [op |-> "none", path |-> NoRoute, method |-> "GET"]

\* the Option the caller holds: the operation validator of the last successful find_operation
NoneFound == [some |-> FALSE, op |-> 0]

SomeFound(op) == [some |-> TRUE, op |-> op]

\* no jsonschema::Registry built
NoRegistry == [built |-> FALSE, uri |-> ""]

\* one caller only: no concurrent callers
NoThreads == <<>>

\* an ApiValidator in the caller's hands, no build running
NoBuild ==
    /\ contract = [hasComponents |-> FALSE, paths |-> <<>>]
    /\ pc = "done"
    /\ path_idx = 0
    /\ op_idx = 0
    /\ operations_map = {}
    /\ registry = NoRegistry
    /\ total_operations = 0
    /\ completed_operations = 0

InitRoute ==
    /\ router = EmptyRouter
    /\ registered = {}
    /\ adds = 0
    /\ found = NoneFound
    /\ foundParams = {}
    /\ call = NoCall
    /\ result = Ok
    /\ NoBuild
    /\ threads = NoThreads

\* add_operation(path, method, validator) with a fresh validator
AddOperation ==
    /\ adds < MaxAdds
    /\ \E path \in Patterns, method \in RouteMethods :
        LET validator == adds + 1
            res == AddOperationResult(router, path, method)
        IN  /\ router' = AddOperationRouter(router, path, method, validator)
            /\ result' = res
            /\ call' = [op |-> "add_operation", path |-> path, method |-> method]
            /\ registered' =
                IF res.kind = "Ok"
                THEN {e \in registered : ~(e.pattern = path /\ e.method = method)}
                        \cup {[pattern |-> path, method |-> method, validator |-> validator]}
                ELSE registered
    /\ adds' = adds + 1
    /\ UNCHANGED <<threads, found, foundParams, buildVars>>

\* find_operation(path, method)
FindOperation ==
    /\ pc = "done"
    /\ call.op \in {"none", "add_operation", "find_operation"}
    /\ \E path \in ConcretePaths, method \in RouteMethods :
        LET res == FindOperationResult(router, path, method)
        IN  /\ result' = res
            /\ call' = [op |-> "find_operation", path |-> path, method |-> method]
            /\ found' = IF res.kind = "Ok" THEN SomeFound(FindOperationValidator(router, path, method)) ELSE found
            /\ foundParams' = IF res.kind = "Ok" THEN FindOperationParams(router, path) ELSE foundParams
            /\ router' = FindOperationRouter(router, path, method)
    /\ UNCHANGED <<threads, registered, adds, buildVars>>

NextRoute == AddOperation \/ FindOperation

SpecRoute == InitRoute /\ [][NextRoute]_vars

-----------------------------------------------------------------------------
(* The schemas, values and validators the model draws its inputs from *)

\* {type: integer, minimum: 1, maximum: 3}
SInt == PropertySchema("integer", {"type", "minimum", "maximum"}, 1, 3, 0, {}, {})

\* {type: string, minLength: 2}
SStr == PropertySchema("string", {"type", "minLength"}, 0, 0, 2, {}, {})

\* {enum: [2, "abc"]}
SEnum == PropertySchema("any", {"enum"}, 0, 0, 0, {JInt(2), JStr(3)}, {})

\* {oneOf: [{type: integer}, {type: number}]}
SOneOf == PropertySchema("any", {"oneOf"}, 0, 0, 0, {}, {"integer", "number"})

\* {anyOf: [{type: string}]}
SAnyOf == PropertySchema("any", {"anyOf"}, 0, 0, 0, {}, {"string"})

\* {type: bogus}: a schema that does not compile
SBogus == PropertySchema("bogus", {"type"}, 0, 0, 0, {}, {})

\* {type: object, required: [username], properties: {username: SStr, age: SInt}}
SUser ==
    TopSchema(PropertySchema("object", {"type", "required", "properties"}, 0, 0, 0, {}, {}),
              <<"username">>,
              [p \in PropNames |-> IF p = "username" THEN SStr ELSE SInt])

ParamValues == {JInt(0), JInt(2), JInt(5), JStr(1), JStr(3)}

ParamNames == {"id", "limit"}

\* the observed maps: a declared name carries any value or none, an undeclared one may be there
ObservedMaps ==
    { [name \in ParamNames \cup {"extra"} |->
            IF name = "id" THEN a ELSE IF name = "limit" THEN b ELSE c] :
        a \in {Scalar(v) : v \in ParamValues} \cup {NoValue},
        b \in {Scalar(v) : v \in ParamValues} \cup {NoValue},
        c \in {Scalar(JInt(0)), NoValue} }

Bodies ==
    { JObject(u, a) : u \in {Absent, JStr(1), JStr(3), JInt(2)},
                      a \in {Absent, JInt(0), JInt(2), JStr(1)} }
        \cup {Scalar(JInt(2)), Scalar(JInt(0)), Scalar(JStr(1))}

StatusCodes == {200, 204, 404}

ParameterValidators ==
    { ParameterValidator("id", TRUE, ScalarSchema(SInt)),
      ParameterValidator("id", FALSE, ScalarSchema(SEnum)),
      ParameterValidator("id", TRUE, ScalarSchema(SAnyOf)),
      ParameterValidator("limit", TRUE, ScalarSchema(SStr)),
      ParameterValidator("limit", FALSE, ScalarSchema(SInt)),
      ParameterValidator("limit", TRUE, ScalarSchema(SOneOf)) }

\* the lists add_*_parameter can build, up to MaxParams long
ParameterLists ==
    UNION { [1..len -> ParameterValidators] : len \in 0..MaxParams }

Locations == {"path", "query", "header"}

ParametersValidators ==
    { [loc \in Locations |-> IF loc = at THEN l ELSE <<>>] : at \in Locations, l \in ParameterLists }

BodySchemas == {SUser, ScalarSchema(SInt), ScalarSchema(SStr)}

RequestBodyValidators ==
    { RequestBodyValidator(s, required) : s \in BodySchemas, required \in BOOLEAN }

ResponseValidators ==
    { [exact |-> ex, default |-> d] :
        ex \in SUBSET { [status |-> 200, schema |-> SUser], [status |-> 404, schema |-> ScalarSchema(SStr)] },
        d \in {NoDefault, [present |-> TRUE, schema |-> ScalarSchema(SInt)]} }

\* the validators the public constructors can build
OperationValidators ==
    { OperationValidator(RequestBodyValidator(SUser, TRUE), EmptyResponseValidator, pv) :
        pv \in ParametersValidators }
    \cup
    { OperationValidator(rb, rv, EmptyParametersValidator) :
        rb \in RequestBodyValidators, rv \in ResponseValidators }

-----------------------------------------------------------------------------
(* Validation calls on the operation validator find_operation returned *)

ValidatePath ==
    /\ call.op = "none"
    /\ found.some
    /\ \E params \in ObservedMaps :
        /\ call' = [op |-> "validate_path", params |-> params]
        /\ result' = validate_path(found.op.parameters, params)
    /\ UNCHANGED <<threads, routeVars, found, foundParams, buildVars>>

ValidateQuery ==
    /\ call.op = "none"
    /\ found.some
    /\ \E params \in ObservedMaps :
        /\ call' = [op |-> "validate_query", params |-> params]
        /\ result' = validate_query(found.op.parameters, params)
    /\ UNCHANGED <<threads, routeVars, found, foundParams, buildVars>>

ValidateHeaders ==
    /\ call.op = "none"
    /\ found.some
    /\ \E params \in ObservedMaps :
        /\ call' = [op |-> "validate_headers", params |-> params]
        /\ result' = validate_headers(found.op.parameters, params)
    /\ UNCHANGED <<threads, routeVars, found, foundParams, buildVars>>

\* main.rs: if let Some(validator) = &operation.request_body { validator.validate(body) }
ValidateRequestBody ==
    /\ call.op = "none"
    /\ found.some
    /\ found.op.request_body.present
    /\ \E body \in Bodies \cup {NoBody} :
        /\ call' = [op |-> "request_body.validate", body |-> body]
        /\ result' = RequestBodyValidate(found.op.request_body, body)
    /\ UNCHANGED <<threads, routeVars, found, foundParams, buildVars>>

ValidateResponse ==
    /\ call.op = "none"
    /\ found.some
    /\ \E status_code \in StatusCodes, body \in Bodies \cup {NoBody} :
        /\ call' = [op |-> "responses.validate", status |-> status_code, body |-> body]
        /\ result' = ResponseValidate(found.op.responses, status_code, body)
    /\ UNCHANGED <<threads, routeVars, found, foundParams, buildVars>>

\* main.rs: the caller matches on the result and goes on to its next call
Return ==
    /\ call.op \notin {"none", "add_operation"}
    /\ call' = NoCall
    /\ result' = Ok
    /\ UNCHANGED <<threads, routeVars, found, foundParams, buildVars>>

Validate ==
    \/ ValidatePath
    \/ ValidateQuery
    \/ ValidateHeaders
    \/ ValidateRequestBody
    \/ ValidateResponse

InitValidate ==
    /\ router = EmptyRouter
    /\ registered = {}
    /\ adds = 0
    /\ found \in {SomeFound(op) : op \in OperationValidators}
    /\ foundParams = {}
    /\ call = NoCall
    /\ result = Ok
    /\ NoBuild
    /\ threads = NoThreads

NextValidate == Validate \/ Return

SpecValidate == InitValidate /\ [][NextValidate]_vars

-----------------------------------------------------------------------------
(* The parsed contract (openapiv3::OpenAPI) *)

ParametersPrefix == "#/components/parameters/"

RequestBodiesPrefix == "#/components/requestBodies/"

ResponsesPrefix == "#/components/responses/"

\* ReferenceOr<T>
Item(item) == [isRef |-> FALSE, prefix |-> "", name |-> "", item |-> item]

Reference(prefix, name, dummy) == [isRef |-> TRUE, prefix |-> prefix, name |-> name, item |-> dummy]

\* openapiv3::Parameter: its location, ParameterData and ParameterSchemaOrContent
Parameter(loc, name, required, format, schema) ==
    [loc |-> loc, name |-> name, required |-> required, format |-> format,
     schema |-> ScalarSchema(schema)]

NoParameter == Parameter("query", "", FALSE, "Schema", AnySchema)

\* openapiv3::Content: the application/json media type (absent, without a schema or
\* with one) and whether other media types are there
Content(json, other, schema) == [json |-> json, other |-> other, schema |-> schema]

EmptyContent == Content("absent", FALSE, ScalarSchema(AnySchema))

JsonContent(schema) == Content("schema", FALSE, schema)

NonJsonContent == Content("absent", TRUE, ScalarSchema(AnySchema))

ContentIsEmpty(content) == content.json = "absent" /\ ~content.other

RequestBody(content, required) == [content |-> content, required |-> required]

Response(content) == [content |-> content]

\* openapiv3::StatusCode
Code(code) == [range |-> FALSE, code |-> code]

Range(digit) == [range |-> TRUE, code |-> digit]

StatusEntry(status, response) == [status |-> status, response |-> response]

NoDefaultResponse == [present |-> FALSE, response |-> Item(Response(EmptyContent))]

DefaultResponse(response) == [present |-> TRUE, response |-> response]

Responses(responses, default) == [responses |-> responses, default |-> default]

NoRequestBody == [present |-> FALSE, body |-> Item(RequestBody(EmptyContent, FALSE))]

SomeRequestBody(body) == [present |-> TRUE, body |-> body]

Operation(parameters, request_body, responses) ==
    [parameters |-> parameters, request_body |-> request_body, responses |-> responses]

\* one entry of PathItem::iter(): the method name and the operation
MethodEntry(method_str, operation) == [method_str |-> method_str, operation |-> operation]

\* one entry of spec.paths.paths: ReferenceOr<PathItem>
PathItem(path, ops) == [path |-> path, isRef |-> FALSE, ops |-> ops]

PathReference(path) == [path |-> path, isRef |-> TRUE, ops |-> <<>>]

\* spec.components, when the document has the section
ComponentParameters ==
    [name \in {"PageLimit", "Alias", "LoopA", "LoopB"} |->
        IF name = "PageLimit" THEN Item(Parameter("query", "limit", TRUE, "Schema", SInt))
        ELSE IF name = "Alias" THEN Reference(ParametersPrefix, "PageLimit", NoParameter)
        ELSE IF name = "LoopA" THEN Reference(ParametersPrefix, "LoopB", NoParameter)
        ELSE Reference(ParametersPrefix, "LoopA", NoParameter)]

ComponentRequestBodies ==
    [name \in {"CreateUser"} |-> Item(RequestBody(JsonContent(SUser), TRUE))]

ComponentResponses ==
    [name \in {"NotFound"} |-> Item(Response(JsonContent(ScalarSchema(SStr))))]

-----------------------------------------------------------------------------
(* spec/reference_resolver.rs *)

Resolved(item) == [ok |-> TRUE, item |-> item, err |-> Ok]

Unresolved(dummy, msg, args) ==
    [ok |-> FALSE, item |-> dummy, err |-> ErrFmt("SchemaCompilationError", msg, args)]

\* the reference string of a ReferenceOr::Reference: a prefix and the name after it
ReferenceText(ref_or) == ref_or.prefix \o ref_or.name

\* a resolver that follows a target that is itself a reference one more hop
resolve_logic_transitive(ref_or, spec, prefix, map) ==
    IF ~ref_or.isRef THEN Resolved(ref_or.item)
    ELSE IF ref_or.prefix # prefix
    THEN Unresolved(ref_or.item, "Invalid reference", <<ReferenceText(ref_or), prefix>>)
    ELSE IF ~spec.hasComponents \/ ref_or.name \notin DOMAIN map
    THEN Unresolved(ref_or.item, "Reference not found", <<ReferenceText(ref_or)>>)
    ELSE IF ~map[ref_or.name].isRef THEN Resolved(map[ref_or.name].item)
    ELSE IF map[ref_or.name].name \in DOMAIN map /\ ~map[map[ref_or.name].name].isRef
    THEN Resolved(map[map[ref_or.name].name].item)
    ELSE Unresolved(ref_or.item, "Reference not found", <<ReferenceText(ref_or)>>)

\* a resolver that does not look at the prefix of the reference
resolve_logic_any_prefix(ref_or, spec, prefix, map) ==
    IF ~ref_or.isRef THEN Resolved(ref_or.item)
    ELSE IF ~spec.hasComponents \/ ref_or.name \notin DOMAIN map
    THEN Unresolved(ref_or.item, "Reference not found", <<ReferenceText(ref_or)>>)
    ELSE IF map[ref_or.name].isRef
    THEN Unresolved(ref_or.item, "Reference not found", <<ReferenceText(ref_or)>>)
    ELSE Resolved(map[ref_or.name].item)

\* resolve_logic: map is the sub-map of the components section the selector picks
resolve_logic(ref_or, spec, prefix, map) ==
    IF ~ref_or.isRef THEN Resolved(ref_or.item)
    ELSE IF ref_or.prefix # prefix
    THEN Unresolved(ref_or.item, "Invalid reference", <<ReferenceText(ref_or), prefix>>)
    ELSE IF ~spec.hasComponents \/ ref_or.name \notin DOMAIN map
    THEN Unresolved(ref_or.item, "Reference not found", <<ReferenceText(ref_or)>>)
    ELSE IF map[ref_or.name].isRef
    THEN Unresolved(ref_or.item, "Reference not found", <<ReferenceText(ref_or)>>)
    ELSE Resolved(map[ref_or.name].item)

ResolveParameter(ref_or, spec) == resolve_logic(ref_or, spec, ParametersPrefix, ComponentParameters)

ResolveRequestBody(ref_or, spec) ==
    resolve_logic(ref_or, spec, RequestBodiesPrefix, ComponentRequestBodies)

ResolveResponse(ref_or, spec) == resolve_logic(ref_or, spec, ResponsesPrefix, ComponentResponses)

-----------------------------------------------------------------------------
(* validation_helpers.rs and spec/builder.rs *)

\* the value a builder returns: Ok(value) or Err(err)
Built(value) == [ok |-> TRUE, value |-> value, err |-> Ok]

Failed(dummy, err) == [ok |-> FALSE, value |-> dummy, err |-> err]

\* u16 formatted with {}: the status codes the contracts declare
StatusText(status_code) ==
    IF status_code = 200 THEN "200"
    ELSE IF status_code = 204 THEN "204"
    ELSE IF status_code = 404 THEN "404"
    ELSE "other"

\* the Validator jsonschema::options().with_registry(registry.clone()).build(schema)
\* returns: the keywords of the schema, and the registry its references resolve in
Compiled(schema, reg) ==
    [f \in DOMAIN schema \cup {"registry"} |-> IF f = "registry" THEN reg ELSE schema[f]]

\* a compilation that resolves references in an empty registry of its own
build_validator_own_registry(schema, reg, error_context) ==
    IF WellFormed(schema) THEN Built(Compiled(schema, [built |-> TRUE, uri |-> ""]))
    ELSE Failed(schema, ErrFmt("SchemaCompilationError", "Failed to compile schema", error_context))

\* build_validator: compiles the schema against the registry; the message of its
\* error is "Failed to compile schema for {error_context}: {e}", e the compiler's
\* own description of what is wrong in the schema
build_validator(schema, reg, error_context) ==
    IF WellFormed(schema) THEN Built(Compiled(schema, reg))
    ELSE Failed(schema, ErrFmt("SchemaCompilationError", "Failed to compile schema", error_context))

\* extract_json_schema
extract_json_schema(content) ==
    IF content.json = "absent"
    THEN Failed(content.schema, Err("SchemaCompilationError", "must have application/json content"))
    ELSE IF content.json = "noschema"
    THEN Failed(content.schema, Err("SchemaCompilationError", "schema is missing"))
    ELSE Built(content.schema)

\* build_registry
build_registry(spec) ==
    IF ~spec.hasComponents
    THEN Failed(NoRegistry, Err("SchemaCompilationError", "No components section in spec"))
    ELSE Built([built |-> TRUE, uri |-> "urn:oas:spec"])

\* HttpMethod::from_str: the token in upper case, matched against the eight names
ToUppercase(s) ==
    IF s \in {"get", "Get", "gEt", "GET"} THEN "GET"
    ELSE IF s \in {"post", "Post", "pOsT", "POST"} THEN "POST"
    ELSE IF s \in {"put", "Put", "PUT"} THEN "PUT"
    ELSE IF s \in {"delete", "Delete", "DELETE"} THEN "DELETE"
    ELSE IF s \in {"patch", "Patch", "PATCH"} THEN "PATCH"
    ELSE IF s \in {"head", "Head", "HEAD"} THEN "HEAD"
    ELSE IF s \in {"options", "Options", "OPTIONS"} THEN "OPTIONS"
    ELSE IF s \in {"trace", "Trace", "TRACE"} THEN "TRACE"
    ELSE IF s \in {"connect", "Connect", "CONNECT"} THEN "CONNECT"
    ELSE IF s \in {"gets", "GETS"} THEN "GETS"
    ELSE IF s \in {"query", "QUERY"} THEN "QUERY"
    ELSE s

NoMethod == "None"

\* a parser that compares the token as it is written
from_str_exact(s) == IF s \in HttpMethod THEN s ELSE NoMethod

from_str(s) == IF ToUppercase(s) \in HttpMethod THEN ToUppercase(s) ELSE NoMethod

\* build_parameters_validator: the loop over the operation's parameters
AddParameter(pv, loc, param_validator) ==
    IF loc = "query" THEN [pv EXCEPT !.query = Append(@, param_validator)]
    ELSE IF loc = "header" THEN [pv EXCEPT !.header = Append(@, param_validator)]
    ELSE IF loc = "path" THEN [pv EXCEPT !.path = Append(@, param_validator)]
    ELSE pv

\* a loop that leaves a cookie parameter out only when it adds to the lists
RECURSIVE BuildParametersCookieCompiled(_, _, _, _)
BuildParametersCookieCompiled(spec, reg, parameters, params_validator) ==
    IF parameters = <<>> THEN Built(params_validator)
    ELSE LET resolved == ResolveParameter(Head(parameters), spec)
             parameter == resolved.item
             compiled == build_validator(parameter.schema, reg, <<"parameter", parameter.name>>)
         IN  IF ~resolved.ok THEN Failed(params_validator, resolved.err)
             ELSE IF parameter.loc = "header"
             THEN BuildParametersCookieCompiled(spec, reg, Tail(parameters), params_validator)
             ELSE IF parameter.format # "Schema"
             THEN Failed(params_validator,
                         Err("SchemaCompilationError", "Content-based parameters not supported"))
             ELSE IF ~compiled.ok THEN Failed(params_validator, compiled.err)
             ELSE BuildParametersCookieCompiled(spec, reg, Tail(parameters),
                    AddParameter(params_validator, parameter.loc,
                        ParameterValidator(parameter.name, parameter.required, compiled.value)))

RECURSIVE BuildParametersFrom(_, _, _, _)
BuildParametersFrom(spec, reg, parameters, params_validator) ==
    IF parameters = <<>> THEN Built(params_validator)
    ELSE LET resolved == ResolveParameter(Head(parameters), spec)
             parameter == resolved.item
             compiled == build_validator(parameter.schema, reg, <<"parameter", parameter.name>>)
         IN  IF ~resolved.ok THEN Failed(params_validator, resolved.err)
             ELSE IF parameter.loc \in {"header", "cookie"}
             THEN BuildParametersFrom(spec, reg, Tail(parameters), params_validator)
             ELSE IF parameter.format # "Schema"
             THEN Failed(params_validator,
                         Err("SchemaCompilationError", "Content-based parameters not supported"))
             ELSE IF ~compiled.ok THEN Failed(params_validator, compiled.err)
             ELSE BuildParametersFrom(spec, reg, Tail(parameters),
                    AddParameter(params_validator, parameter.loc,
                        ParameterValidator(parameter.name, parameter.required, compiled.value)))

build_parameters_validator(spec, reg, parameters) ==
    BuildParametersFrom(spec, reg, parameters, EmptyParametersValidator)

\* build_request_body_validator
build_request_body_validator(spec, reg, request_body_ref) ==
    LET resolved == ResolveRequestBody(request_body_ref, spec)
        schema_json == extract_json_schema(resolved.item.content)
        compiled == build_validator(schema_json.value, reg, <<"request body">>)
    IN  IF ~resolved.ok THEN Failed(NoRequestBodyValidator, resolved.err)
        ELSE IF ~schema_json.ok THEN Failed(NoRequestBodyValidator, schema_json.err)
        ELSE IF ~compiled.ok THEN Failed(NoRequestBodyValidator, compiled.err)
        ELSE Built(RequestBodyValidator(compiled.value, resolved.item.required))

\* a loop that registers a response under a range key for the first code of the range
RECURSIVE BuildResponsesRangeAsCode(_, _, _, _)
BuildResponsesRangeAsCode(spec, reg, responses, response_validator) ==
    IF responses = <<>> THEN Built(response_validator)
    ELSE LET entry == Head(responses)
             status_code == IF entry.status.range THEN entry.status.code * 100 ELSE entry.status.code
             resolved == ResolveResponse(entry.response, spec)
             schema_json == extract_json_schema(resolved.item.content)
             compiled == build_validator(schema_json.value, reg,
                                         <<"response", StatusText(status_code)>>)
         IN  IF ~resolved.ok THEN Failed(response_validator, resolved.err)
             ELSE IF ContentIsEmpty(resolved.item.content) \/ ~schema_json.ok
             THEN BuildResponsesRangeAsCode(spec, reg, Tail(responses), response_validator)
             ELSE IF ~compiled.ok THEN Failed(response_validator, compiled.err)
             ELSE BuildResponsesRangeAsCode(spec, reg, Tail(responses),
                    AddResponse(response_validator, status_code, compiled.value))

\* build_response_validator: the loop over responses.responses
RECURSIVE BuildResponsesFrom(_, _, _, _)
BuildResponsesFrom(spec, reg, responses, response_validator) ==
    IF responses = <<>> THEN Built(response_validator)
    ELSE LET entry == Head(responses)
             resolved == ResolveResponse(entry.response, spec)
             schema_json == extract_json_schema(resolved.item.content)
             compiled == build_validator(schema_json.value, reg,
                                         <<"response", StatusText(entry.status.code)>>)
         IN  IF entry.status.range
             THEN BuildResponsesFrom(spec, reg, Tail(responses), response_validator)
             ELSE IF ~resolved.ok THEN Failed(response_validator, resolved.err)
             ELSE IF ContentIsEmpty(resolved.item.content) \/ ~schema_json.ok
             THEN BuildResponsesFrom(spec, reg, Tail(responses), response_validator)
             ELSE IF ~compiled.ok THEN Failed(response_validator, compiled.err)
             ELSE BuildResponsesFrom(spec, reg, Tail(responses),
                    AddResponse(response_validator, entry.status.code, compiled.value))

\* build_response_validator: the default response, after the loop
BuildDefaultResponse(spec, reg, default, response_validator) ==
    LET resolved == ResolveResponse(default.response, spec)
        schema_json == extract_json_schema(resolved.item.content)
        compiled == build_validator(schema_json.value, reg, <<"default response">>)
    IN  IF ~default.present THEN Built(response_validator)
        ELSE IF ~resolved.ok THEN Failed(response_validator, resolved.err)
        ELSE IF ContentIsEmpty(resolved.item.content) \/ ~schema_json.ok
        THEN Built(response_validator)
        ELSE IF ~compiled.ok THEN Failed(response_validator, compiled.err)
        ELSE Built(SetDefault(response_validator, compiled.value))

build_response_validator(spec, reg, responses) ==
    LET exact == BuildResponsesFrom(spec, reg, responses.responses, EmptyResponseValidator)
    IN  IF ~exact.ok THEN exact
        ELSE BuildDefaultResponse(spec, reg, responses.default, exact.value)

NoOperationValidator ==
    OperationValidator(NoRequestBodyValidator, EmptyResponseValidator, EmptyParametersValidator)

\* build_operation_validator
build_operation_validator(spec, reg, operation) ==
    LET parameters_validator == build_parameters_validator(spec, reg, operation.parameters)
        request_body_validator ==
            IF operation.request_body.present
            THEN build_request_body_validator(spec, reg, operation.request_body.body)
            ELSE Built(NoRequestBodyValidator)
        response_validator == build_response_validator(spec, reg, operation.responses)
    IN  IF ~parameters_validator.ok THEN Failed(NoOperationValidator, parameters_validator.err)
        ELSE IF ~request_body_validator.ok THEN Failed(NoOperationValidator, request_body_validator.err)
        ELSE IF ~response_validator.ok THEN Failed(NoOperationValidator, response_validator.err)
        ELSE Built(OperationValidator(request_body_validator.value, response_validator.value,
                                       parameters_validator.value))

\* a count of the paths that are items, taken for the count of their operations
RECURSIVE CountPaths(_)
CountPaths(paths) ==
    IF paths = <<>> THEN 0
    ELSE (IF Head(paths).isRef \/ Head(paths).ops = <<>> THEN 0 ELSE 1) + CountPaths(Tail(paths))

\* build_api_validator: total_operations, the operations of the paths that are items
RECURSIVE CountOperations(_)
CountOperations(paths) ==
    IF paths = <<>> THEN 0
    ELSE (IF Head(paths).isRef THEN 0 ELSE Len(Head(paths).ops)) + CountOperations(Tail(paths))

\* ApiValidator::add_path_operations(path, operations_map): registers the route
\* pattern with its method map
AddPathOperationsFails(r, path) == InsertFails(r.routes, path)

AddPathOperationsRouter(r, path, map) ==
    [routes |-> r.routes \cup {path},
     ops |-> r.ops \cup {[pattern |-> path, method |-> e.method, validator |-> e.validator] : e \in map}]

-----------------------------------------------------------------------------
(* The contracts the model builds *)

BaseParameters == <<Item(Parameter("path", "id", TRUE, "Schema", SInt))>>

BaseRequestBody == SomeRequestBody(Item(RequestBody(JsonContent(SUser), TRUE)))

BaseResponses ==
    Responses(<<StatusEntry(Code(200), Item(Response(JsonContent(SUser)))),
                StatusEntry(Code(404), Item(Response(JsonContent(ScalarSchema(SStr)))))>>,
              NoDefaultResponse)

ParameterChoices ==
    { <<>>,
      BaseParameters,
      <<Item(Parameter("query", "limit", FALSE, "Schema", SInt)),
        Item(Parameter("header", "id", TRUE, "Schema", SStr))>>,
      <<Item(Parameter("query", "limit", TRUE, "Schema", SStr))>>,
      <<Item(Parameter("cookie", "id", TRUE, "Schema", SInt))>>,
      <<Item(Parameter("path", "id", TRUE, "Schema", SInt)),
        Item(Parameter("cookie", "limit", TRUE, "Schema", SBogus))>>,
      <<Item(Parameter("path", "id", TRUE, "Schema", SBogus))>>,
      <<Item(Parameter("header", "id", TRUE, "Schema", SBogus))>>,
      <<Item(Parameter("query", "limit", FALSE, "Content", SInt))>>,
      <<Reference(ParametersPrefix, "PageLimit", NoParameter)>>,
      <<Reference(ParametersPrefix, "Missing", NoParameter)>>,
      <<Reference(ParametersPrefix, "Alias", NoParameter)>>,
      <<Reference(ParametersPrefix, "LoopA", NoParameter)>>,
      <<Reference(ResponsesPrefix, "NotFound", NoParameter)>> }

NoRequestBodyItem == RequestBody(EmptyContent, FALSE)

RequestBodyChoices ==
    { NoRequestBody,
      BaseRequestBody,
      SomeRequestBody(Item(RequestBody(JsonContent(SUser), FALSE))),
      SomeRequestBody(Item(RequestBody(JsonContent(ScalarSchema(SInt)), TRUE))),
      SomeRequestBody(Item(RequestBody(JsonContent(ScalarSchema(SBogus)), TRUE))),
      SomeRequestBody(Item(RequestBody(NonJsonContent, TRUE))),
      SomeRequestBody(Item(RequestBody(Content("noschema", FALSE, ScalarSchema(AnySchema)), TRUE))),
      SomeRequestBody(Reference(RequestBodiesPrefix, "CreateUser", NoRequestBodyItem)),
      SomeRequestBody(Reference(RequestBodiesPrefix, "Missing", NoRequestBodyItem)) }

NoResponseItem == Response(EmptyContent)

ResponsesChoices ==
    { BaseResponses,
      Responses(<<StatusEntry(Code(200), Item(Response(JsonContent(SUser))))>>,
                DefaultResponse(Item(Response(JsonContent(ScalarSchema(SInt)))))),
      Responses(<<StatusEntry(Code(204), Item(Response(EmptyContent))),
                  StatusEntry(Code(404), Item(Response(JsonContent(ScalarSchema(SStr)))))>>,
                NoDefaultResponse),
      Responses(<<StatusEntry(Code(200), Item(Response(NonJsonContent)))>>,
                DefaultResponse(Item(Response(JsonContent(ScalarSchema(SInt)))))),
      Responses(<<StatusEntry(Range(2), Item(Response(JsonContent(SUser))))>>, NoDefaultResponse),
      Responses(<<StatusEntry(Range(2), Item(Response(JsonContent(SUser))))>>,
                DefaultResponse(Item(Response(JsonContent(ScalarSchema(SInt)))))),
      Responses(<<StatusEntry(Code(200), Item(Response(JsonContent(ScalarSchema(SBogus)))))>>,
                NoDefaultResponse),
      Responses(<<StatusEntry(Code(200), Item(Response(JsonContent(SUser))))>>,
                DefaultResponse(Item(Response(JsonContent(ScalarSchema(SBogus)))))),
      Responses(<<StatusEntry(Code(404), Reference(ResponsesPrefix, "NotFound", NoResponseItem))>>,
                NoDefaultResponse),
      Responses(<<StatusEntry(Code(404), Item(Response(JsonContent(ScalarSchema(SStr))))),
                  StatusEntry(Range(2), Reference(ResponsesPrefix, "Missing", NoResponseItem))>>,
                NoDefaultResponse) }

\* the operations: one part varies, the others are the base ones
Operations ==
    { Operation(p, BaseRequestBody, BaseResponses) : p \in ParameterChoices }
    \cup { Operation(BaseParameters, rb, BaseResponses) : rb \in RequestBodyChoices }
    \cup { Operation(BaseParameters, BaseRequestBody, r) : r \in ResponsesChoices }

SimpleOperation ==
    Operation(<<>>, NoRequestBody,
              Responses(<<StatusEntry(Code(200), Item(Response(JsonContent(ScalarSchema(SInt)))))>>,
                        NoDefaultResponse))

\* the path lists of a contract around one operation; the loop of the build takes
\* the method token of an operation as text, and the last lists key operations by
\* tokens in other cases and by tokens that spell no method
PathLists(main) ==
    { <<PathItem(<<"users">>, <<MethodEntry("get", main)>>)>>,
      <<PathItem(<<"users", "{id}">>, <<MethodEntry("get", main), MethodEntry("post", SimpleOperation)>>)>>,
      <<PathReference(<<"users">>), PathItem(<<"users", "{id}">>, <<MethodEntry("get", main)>>)>>,
      <<PathItem(<<"users", "{id}">>, <<MethodEntry("get", main)>>),
        PathItem(<<"users", "me">>, <<MethodEntry("get", SimpleOperation)>>)>>,
      <<PathItem(<<"users", "me">>, <<MethodEntry("post", SimpleOperation)>>),
        PathItem(<<"users", "{id}">>, <<MethodEntry("get", main)>>)>>,
      <<PathItem(<<"users", "{id}">>, <<MethodEntry("get", main)>>),
        PathItem(<<"users", "{name}">>, <<MethodEntry("get", SimpleOperation)>>)>>,
      <<PathItem(<<"users">>, <<>>)>>,
      <<PathReference(<<"users">>)>>,
      <<PathItem(<<"users">>, <<MethodEntry("put", SimpleOperation), MethodEntry("Delete", SimpleOperation),
                                MethodEntry("PATCH", SimpleOperation), MethodEntry("head", SimpleOperation)>>),
        PathItem(<<"users", "me">>, <<MethodEntry("options", SimpleOperation),
                                      MethodEntry("Trace", SimpleOperation)>>)>>,
      <<PathItem(<<"users">>, <<MethodEntry("pOsT", SimpleOperation),
                                MethodEntry("connect", SimpleOperation)>>)>>,
      <<PathItem(<<"users">>, <<MethodEntry("gets", SimpleOperation)>>)>>,
      <<>> }

Contract(hasComponents, paths) == [hasComponents |-> hasComponents, paths |-> paths]

Contracts ==
    { Contract(c, paths) : c \in BOOLEAN, paths \in UNION {PathLists(main) : main \in Operations} }

EmptyContract == Contract(FALSE, <<>>)

-----------------------------------------------------------------------------
(* build_api_validator, step by step, then the calls main.rs makes *)

Init ==
    /\ contract \in Contracts
    /\ pc = "start"
    /\ router = EmptyRouter
    /\ registered = {}
    /\ adds = 0
    /\ found = NoneFound
    /\ foundParams = {}
    /\ call = NoCall
    /\ result = Ok
    /\ path_idx = 0
    /\ op_idx = 0
    /\ operations_map = {}
    /\ registry = NoRegistry
    /\ total_operations = 0
    /\ completed_operations = 0
    /\ threads = NoThreads

\* ApiValidator::new(), build_registry, the count of the operations
BuildStart ==
    /\ pc = "start"
    /\ LET reg == build_registry(contract)
           total == CountOperations(contract.paths)
       IN  IF ~reg.ok
           THEN /\ pc' = "failed"
                /\ result' = reg.err
                /\ UNCHANGED <<registry, total_operations, path_idx>>
           ELSE /\ registry' = reg.value
                /\ total_operations' = total
                /\ pc' = IF total = 0 THEN "done" ELSE "path"
                /\ path_idx' = 1
                /\ result' = Ok
    /\ router' = EmptyRouter
    /\ completed_operations' = 0
    /\ UNCHANGED <<threads, registered, adds, found, foundParams, call, contract, op_idx, operations_map>>

\* the head of the loop over spec.paths.paths: a referenced path is skipped with a warning
BuildPath ==
    /\ pc = "path"
    /\ path_idx <= Len(contract.paths)
    /\ IF contract.paths[path_idx].isRef
       THEN /\ path_idx' = path_idx + 1
            /\ UNCHANGED <<pc, op_idx, operations_map>>
       ELSE /\ pc' = "op"
            /\ op_idx' = 1
            /\ operations_map' = {}
            /\ UNCHANGED path_idx
    /\ UNCHANGED <<threads, routeVars, found, foundParams, call, result, contract, registry,
                   total_operations, completed_operations>>

\* the body of the loop over path_item.iter(): one operation is compiled
BuildOperation ==
    /\ pc = "op"
    /\ op_idx <= Len(contract.paths[path_idx].ops)
    /\ LET entry == contract.paths[path_idx].ops[op_idx]
           method == from_str(entry.method_str)
           validator == build_operation_validator(contract, registry, entry.operation)
       IN  IF method = NoMethod
           THEN /\ pc' = "failed"
                /\ result' = ErrFmt("SchemaCompilationError", "Unknown HTTP method", <<entry.method_str>>)
                /\ UNCHANGED <<op_idx, operations_map, completed_operations>>
           ELSE IF ~validator.ok
           THEN /\ pc' = "failed"
                /\ result' = validator.err
                /\ UNCHANGED <<op_idx, operations_map, completed_operations>>
           ELSE /\ operations_map' =
                      HashMapInsert(operations_map, contract.paths[path_idx].path, method, validator.value)
                /\ completed_operations' = completed_operations + 1
                /\ op_idx' = op_idx + 1
                /\ UNCHANGED <<pc, result>>
    /\ UNCHANGED <<threads, routeVars, found, foundParams, call, contract, path_idx, registry, total_operations>>

\* api_validator.add_path_operations(path, operations_map)?
AddPathOperations ==
    /\ pc = "op"
    /\ op_idx > Len(contract.paths[path_idx].ops)
    /\ LET path == contract.paths[path_idx].path
       IN  IF AddPathOperationsFails(router, path)
           THEN /\ pc' = "failed"
                /\ result' = Err("SchemaCompilationError", "Failed to add route")
                /\ UNCHANGED <<router, path_idx>>
           ELSE /\ router' = AddPathOperationsRouter(router, path, operations_map)
                /\ path_idx' = path_idx + 1
                /\ pc' = "path"
                /\ UNCHANGED result
    /\ UNCHANGED <<threads, registered, adds, found, foundParams, call, contract, op_idx, operations_map,
                   registry, total_operations, completed_operations>>

\* the loop is over: Ok(api_validator)
BuildComplete ==
    /\ pc = "path"
    /\ path_idx > Len(contract.paths)
    /\ pc' = "done"
    /\ result' = Ok
    /\ UNCHANGED <<threads, routeVars, found, foundParams, call, contract, path_idx, op_idx, operations_map,
                   registry, total_operations, completed_operations>>

Build == BuildStart \/ BuildPath \/ BuildOperation \/ AddPathOperations \/ BuildComplete

\* build_api_validator alone: one thread runs it to its return
SpecBuild == Init /\ [][Build]_vars /\ WF_vars(Build)

Next == Build \/ FindOperation \/ Validate \/ Return

Spec == Init /\ [][Next]_vars

-----------------------------------------------------------------------------
(* Concurrent callers of the index build_api_validator returned: each thread  *)
(* holds a shared reference to the ApiValidator; a call is made in one step   *)
(* and returns in a later one, so the calls of different threads overlap.     *)

MaxThreads == 2

Threads == 1..MaxThreads

\* GET /users: an optional query parameter, a response schema for 200 and a default
ListOperation ==
    Operation(<<Item(Parameter("query", "limit", FALSE, "Schema", SInt))>>, NoRequestBody,
              Responses(<<StatusEntry(Code(200), Item(Response(JsonContent(SUser))))>>,
                        DefaultResponse(Item(Response(JsonContent(ScalarSchema(SInt)))))))

ServedContract ==
    Contract(TRUE, <<PathItem(<<"users">>, <<MethodEntry("get", ListOperation),
                                              MethodEntry("post", SimpleOperation)>>)>>)

ServedRegistry == build_registry(ServedContract).value

\* the method map build_api_validator collects for /users
ServedOperationsMap ==
    HashMapInsert(
        HashMapInsert({}, <<"users">>, "GET",
            build_operation_validator(ServedContract, ServedRegistry, ListOperation).value),
        <<"users">>, "POST",
        build_operation_validator(ServedContract, ServedRegistry, SimpleOperation).value)

\* the index build_api_validator returns for ServedContract
ServedIndex == AddPathOperationsRouter(EmptyRouter, <<"users">>, ServedOperationsMap)

ServePaths == {<<"users">>, <<"me">>}

ServeBodies == {NoBody, Scalar(JStr(1))}

ServeStatusCodes == {200, 404}

ServeMaps == {m \in ObservedMaps : m["id"] = NoValue /\ m["extra"] = NoValue
                                    /\ m["limit"] \in {NoValue, Scalar(JStr(1))}}

NoArgs ==
    [path |-> NoRoute, method |-> "GET", status |-> 0, body |-> NoBody,
     params |-> [name \in ParamNames \cup {"extra"} |-> NoValue]]

\* a thread that has made no call
IdleThread ==
    [pc |-> "idle", op |-> "none", args |-> NoArgs, found |-> NoneFound,
     foundAt |-> NoCall, result |-> Ok]

InitServe ==
    /\ contract = ServedContract
    /\ pc = "done"
    /\ path_idx = 2
    /\ op_idx = 3
    /\ operations_map = ServedOperationsMap
    /\ registry = ServedRegistry
    /\ total_operations = 2
    /\ completed_operations = 2
    /\ router = ServedIndex
    /\ registered = {}
    /\ adds = 0
    /\ found = NoneFound
    /\ foundParams = {}
    /\ call = NoCall
    /\ result = Ok
    /\ threads = [t \in Threads |-> IdleThread]

serveFrame == <<registered, adds, found, foundParams, call, result, buildVars>>

\* a thread calls find_operation(path, method)
CallFindOperation(t) ==
    /\ threads[t].pc = "idle"
    /\ \E path \in ServePaths, method \in RouteMethods :
        threads' = [threads EXCEPT ![t].pc = "called", ![t].result = Ok, ![t].op = "find_operation",
                                   ![t].args = [NoArgs EXCEPT !.path = path, !.method = method]]
    /\ UNCHANGED <<router, serveFrame>>

\* find_operation returns to the thread
ReturnFindOperation(t) ==
    /\ threads[t].pc = "called"
    /\ threads[t].op = "find_operation"
    /\ LET path == threads[t].args.path
           method == threads[t].args.method
           res == FindOperationResult(router, path, method)
       IN  /\ threads' =
                [threads EXCEPT ![t].pc = "idle", ![t].result = res,
                    ![t].found = IF res.kind = "Ok"
                                 THEN SomeFound(FindOperationValidator(router, path, method)) ELSE @,
                    ![t].foundAt = IF res.kind = "Ok"
                                   THEN [op |-> "find_operation", path |-> path, method |-> method]
                                   ELSE @]
           /\ router' = FindOperationRouter(router, path, method)
    /\ UNCHANGED serveFrame

\* a thread calls responses.validate(status_code, body) on the operation it holds
CallValidateResponse(t) ==
    /\ threads[t].pc = "idle"
    /\ threads[t].found.some
    /\ \E status_code \in ServeStatusCodes, body \in ServeBodies :
        threads' = [threads EXCEPT ![t].pc = "called", ![t].result = Ok, ![t].op = "responses.validate",
                                   ![t].args = [NoArgs EXCEPT !.status = status_code, !.body = body]]
    /\ UNCHANGED <<router, serveFrame>>

ReturnValidateResponse(t) ==
    /\ threads[t].pc = "called"
    /\ threads[t].op = "responses.validate"
    /\ threads' = [threads EXCEPT ![t].pc = "idle",
                    ![t].result = ResponseValidate(threads[t].found.op.responses,
                                                   threads[t].args.status, threads[t].args.body)]
    /\ UNCHANGED <<router, serveFrame>>

\* a thread calls parameters.validate_query(params) on the operation it holds
CallValidateQuery(t) ==
    /\ threads[t].pc = "idle"
    /\ threads[t].found.some
    /\ \E params \in ServeMaps :
        threads' = [threads EXCEPT ![t].pc = "called", ![t].result = Ok, ![t].op = "validate_query",
                                   ![t].args = [NoArgs EXCEPT !.params = params]]
    /\ UNCHANGED <<router, serveFrame>>

ReturnValidateQuery(t) ==
    /\ threads[t].pc = "called"
    /\ threads[t].op = "validate_query"
    /\ threads' = [threads EXCEPT ![t].pc = "idle",
                    ![t].result = validate_query(threads[t].found.op.parameters, threads[t].args.params)]
    /\ UNCHANGED <<router, serveFrame>>

NextServe ==
    \E t \in Threads :
        \/ CallFindOperation(t)
        \/ ReturnFindOperation(t)
        \/ CallValidateResponse(t)
        \/ ReturnValidateResponse(t)
        \/ CallValidateQuery(t)
        \/ ReturnValidateQuery(t)

SpecServe == InitServe /\ [][NextServe]_vars

-----------------------------------------------------------------------------
(* Claims about the route index *)

RegisteredPatterns == {e.pattern : e \in registered}

\* the pattern is, of the patterns registered, the one a router should pick for the path
BestRegistered(pattern, path) ==
    /\ Matches(pattern, path)
    /\ \A q \in RegisteredPatterns : (q # pattern /\ Matches(q, path)) => ~Prefers(q, pattern)

\* C1: after any sequence of successful add_operation calls, every registered
\* (pattern, method) pair is found: find_operation on a concrete path matching the
\* pattern, with the method, returns the validator registered for the pair and the
\* named segments bound to the values of the path, also when a static and a
\* parameterised pattern overlap, in either order of registration.
C1_LookupReturnsRegistered ==
    \A e \in registered : \A path \in ConcretePaths :
        BestRegistered(e.pattern, path) =>
            /\ FindOperationResult(router, path, e.method).kind = "Ok"
            /\ FindOperationValidator(router, path, e.method) = e.validator
            /\ FindOperationParams(router, path) = ParamsOf(e.pattern, path)

\* C2: the route index holds at most one validator per (pattern, method); an
\* add_operation of a method already on the pattern replaces the earlier validator
\* (or is rejected), and never leaves two validators for the pair.
C2_OneValidatorPerPatternMethod ==
    /\ \A e1, e2 \in router.ops :
        (e1.pattern = e2.pattern /\ e1.method = e2.method) => e1 = e2
    /\ \A e \in router.ops : e.pattern \in router.routes
    /\ (call.op = "add_operation" /\ result.kind = "Ok") =>
        LET matched == RouterAt(router.routes, call.path)
        IN  {e.validator : e \in {x \in MethodMap(router, matched) : x.method = call.method}}
                = {adds}

\* a (pattern, method) pair registered twice over: one route, one entry, the second validator
C2_Witness ==
    /\ adds = 2
    /\ call.op = "add_operation" /\ result.kind = "Ok"
    /\ router.routes = {call.path}
    /\ router.ops = {[pattern |-> call.path, method |-> call.method, validator |-> 2]}

\* C5: find_operation fails with a "no route" error when no pattern matches the
\* path and with a "method not allowed" error when a pattern matches but its method
\* map has no entry for the method, and the two are distinguishable error kinds.
C5_NoRouteAndMethodNotAllowedKindsDiffer ==
    \A p1, p2 \in ConcretePaths : \A m1, m2 \in RouteMethods :
        LET r1 == FindOperationResult(router, p1, m1)
            r2 == FindOperationResult(router, p2, m2)
        IN  ( /\ RouterAt(router.routes, p1) = NoRoute
              /\ RouterAt(router.routes, p2) # NoRoute
              /\ \A e \in MethodMap(router, RouterAt(router.routes, p2)) : e.method # m2 )
            => /\ r1.kind # "Ok" /\ r1.msg = "No route found for path"
               /\ r2.kind # "Ok" /\ r2.msg = "Method not allowed for path"
               /\ r1.kind # r2.kind

-----------------------------------------------------------------------------
(* Claims about the validators *)

\* the five kinds of structural finding the drift taxonomy recognizes
RecognizedKinds == {"Type", "Required", "Enum", "OneOfNotValid", "AnyOf"}

KindsOf(errors) == {errors[i].kind : i \in 1..Len(errors)}

\* the value is structurally invalid and every finding is outside the five kinds
OnlyUnrecognized(schema, v) ==
    /\ ~IsValid(schema, v)
    /\ KindsOf(IterErrors(schema, v)) \cap RecognizedKinds = {}

IsParameterCall == call.op \in {"validate_path", "validate_query", "validate_headers"}

\* the list of declared parameters a parameter call walks
CalledList ==
    IF call.op = "validate_path" THEN found.op.parameters.path
    ELSE IF call.op = "validate_query" THEN found.op.parameters.query
    ELSE found.op.parameters.header

\* C3: a response body validator called with an absent body succeeds, for every
\* status code and every configuration of the validator, also when no exact schema
\* matches the status code and there is no default schema.
C3_ResponseNoneBodySucceeds ==
    (call.op = "responses.validate" /\ call.body = NoBody) => result.kind = "Ok"

-----------------------------------------------------------------------------
(* Claims about the build and about the calls on what it built *)

\* the kind of error a list of drift findings is reported with
DriftKind == DriftErr(<<>>).kind

\* the operation the contract declares for a route and a method
DeclaredAt(pattern, method) ==
    LET i == CHOOSE k \in 1..Len(contract.paths) :
                ~contract.paths[k].isRef /\ contract.paths[k].path = pattern
        ops == contract.paths[i].ops
        j == CHOOSE k \in 1..Len(ops) : from_str(ops[k].method_str) = method
    IN  ops[j].operation

HasMissingRequired(res, name) ==
    /\ res.kind = DriftKind
    /\ \E i \in 1..Len(res.findings) :
        res.findings[i] = DriftFinding("ParameterMissingRequired", name, "")

\* C4: the three operational gaps (no route for the path, method not allowed for
\* a matched path, no schema for the status code) are each reported with an error
\* kind different from the kind drift findings are reported with.
C4_OperationalGapsAreNotDriftKind ==
    /\ (call.op = "find_operation" /\ result.kind # "Ok") => result.kind # DriftKind
    /\ (call.op = "responses.validate" /\ ~HasSchemaFor(found.op.responses, call.status))
        => result.kind \notin {"Ok", DriftKind}

\* C6: every parameter the contract declares with location path, query or header
\* is in the compiled list of that location; for a required header parameter,
\* validate_headers on a map without the name reports ParameterMissingRequired.
C6_DeclaredParametersAreCompiled ==
    \A e \in router.ops :
        LET declared == DeclaredAt(e.pattern, e.method).parameters
        IN  \A i \in 1..Len(declared) :
                LET resolved == ResolveParameter(declared[i], contract)
                    p == resolved.item
                    list == e.validator.parameters[p.loc]
                IN  (resolved.ok /\ p.loc \in Locations) =>
                        /\ \E k \in 1..Len(list) : list[k].name = p.name
                        /\ (p.loc = "header" /\ p.required) =>
                            \A m \in ObservedMaps :
                                m[p.name] = NoValue =>
                                    HasMissingRequired(validate_headers(e.validator.parameters, m), p.name)

\* the contract has no reference: no path, parameter, request body or response is one
RECURSIVE AnyRef(_)
AnyRef(seq) == IF seq = <<>> THEN FALSE ELSE Head(seq).isRef \/ AnyRef(Tail(seq))

OperationHasRef(o) ==
    \/ AnyRef(o.parameters)
    \/ (o.request_body.present /\ o.request_body.body.isRef)
    \/ \E i \in 1..Len(o.responses.responses) : o.responses.responses[i].response.isRef
    \/ (o.responses.default.present /\ o.responses.default.response.isRef)

DeclaredOperations ==
    UNION { {contract.paths[i].ops[j].operation : j \in 1..Len(contract.paths[i].ops)} :
            i \in {k \in 1..Len(contract.paths) : ~contract.paths[k].isRef} }

NoReferences ==
    /\ \A i \in 1..Len(contract.paths) : ~contract.paths[i].isRef
    /\ \A o \in DeclaredOperations : ~OperationHasRef(o)

\* every schema an inline operation declares is well-formed on its own
OperationSchemasWellFormed(o) ==
    /\ \A i \in 1..Len(o.parameters) : WellFormed(o.parameters[i].item.schema)
    /\ o.request_body.present => WellFormed(o.request_body.body.item.content.schema)
    /\ \A i \in 1..Len(o.responses.responses) :
            WellFormed(o.responses.responses[i].response.item.content.schema)
    /\ o.responses.default.present => WellFormed(o.responses.default.response.item.content.schema)

\* C7: for a contract with no components section and no references, the build
\* succeeds if and only if every schema is well-formed on its own; the absence of
\* the components section by itself never makes the build fail.
C7_BuildsWithoutComponents ==
    (pc \in {"done", "failed"} /\ ~contract.hasComponents /\ NoReferences) =>
        (pc = "done" <=> \A o \in DeclaredOperations : OperationSchemasWellFormed(o))

\* C8: a path entry that is itself a reference is fatal to the build:
\* build_api_validator never returns a route index from which a path the contract
\* declares is missing.
C8_PathReferenceIsFatal ==
    pc = "done" =>
        \A i \in 1..Len(contract.paths) :
            contract.paths[i].isRef => contract.paths[i].path \in router.routes

BoundKinds == {"Minimum", "Maximum", "MinLength"}

ViolatesBound(schema, v) == KindsOf(IterErrors(schema, v)) \cap BoundKinds # {}

\* C10: validation of an operation build_api_validator built fails when a present
\* value violates a numeric bound or a length constraint of its schema: a query or
\* path parameter above its maximum or below its minimum, a request body string
\* shorter than minLength, a request body integer below its minimum.
C10_BoundViolationFails ==
    /\ ( /\ IsParameterCall
         /\ \E i \in 1..Len(CalledList) :
                /\ call.params[CalledList[i].name] # NoValue
                /\ ViolatesBound(CalledList[i].validator, call.params[CalledList[i].name]) )
        => result.kind # "Ok"
    /\ ( /\ call.op = "request_body.validate" /\ call.body # NoBody
         /\ ViolatesBound(found.op.request_body.schema, call.body) )
        => result.kind # "Ok"

-----------------------------------------------------------------------------
(* Claims about the classification of findings *)

ParameterDriftKinds ==
    {"ParameterTypeMismatch", "ParameterMissingRequired", "ParameterEnumViolation",
     "ParameterOneOfNoMatch", "ParameterAnyOfNoMatch"}

RequestBodyDriftKinds ==
    {"RequestBodyTypeMismatch", "RequestBodyMissingRequired", "RequestBodyEnumViolation",
     "RequestBodyOneOfNoMatch", "RequestBodyAnyOfNoMatch"}

ResponseBodyDriftKinds ==
    {"ResponseBodyTypeMismatch", "ResponseBodyMissingRequired", "ResponseBodyEnumViolation",
     "ResponseBodyOneOfNoMatch", "ResponseBodyAnyOfNoMatch"}

\* the drift kinds of the findings a result carries
DriftsOf(res) == {res.findings[i].drift : i \in 1..Len(res.findings)}

\* C11: every drift finding a validation call emits carries a drift kind of the
\* context of the call: parameter validation emits only Parameter* kinds, request
\* body validation only RequestBody* kinds, response validation only ResponseBody*.
C11_FindingsCarryTheCallContext ==
    /\ IsParameterCall => DriftsOf(result) \subseteq ParameterDriftKinds
    /\ call.op = "request_body.validate" => DriftsOf(result) \subseteq RequestBodyDriftKinds
    /\ call.op = "responses.validate" => DriftsOf(result) \subseteq ResponseBodyDriftKinds

\* a query parameter outside its enum, reported as a parameter finding
C11_Witness ==
    /\ call.op = "validate_query"
    /\ result.kind = DriftKind
    /\ "ParameterEnumViolation" \in DriftsOf(result)

\* the drift kind the taxonomy gives a kind of structural finding in a context
ExpectedDrift(kind, context) ==
    CASE kind = "Type" /\ context = "Parameter" -> "ParameterTypeMismatch"
      [] kind = "Type" /\ context = "RequestBody" -> "RequestBodyTypeMismatch"
      [] kind = "Type" /\ context = "ResponseBody" -> "ResponseBodyTypeMismatch"
      [] kind = "Required" /\ context = "Parameter" -> "ParameterMissingRequired"
      [] kind = "Required" /\ context = "RequestBody" -> "RequestBodyMissingRequired"
      [] kind = "Required" /\ context = "ResponseBody" -> "ResponseBodyMissingRequired"
      [] kind = "Enum" /\ context = "Parameter" -> "ParameterEnumViolation"
      [] kind = "Enum" /\ context = "RequestBody" -> "RequestBodyEnumViolation"
      [] kind = "Enum" /\ context = "ResponseBody" -> "ResponseBodyEnumViolation"
      [] kind = "OneOfNotValid" /\ context = "Parameter" -> "ParameterOneOfNoMatch"
      [] kind = "OneOfNotValid" /\ context = "RequestBody" -> "RequestBodyOneOfNoMatch"
      [] kind = "OneOfNotValid" /\ context = "ResponseBody" -> "ResponseBodyOneOfNoMatch"
      [] kind = "AnyOf" /\ context = "Parameter" -> "ParameterAnyOfNoMatch"
      [] kind = "AnyOf" /\ context = "RequestBody" -> "RequestBodyAnyOfNoMatch"
      [] kind = "AnyOf" /\ context = "ResponseBody" -> "ResponseBodyAnyOfNoMatch"
      [] OTHER -> "None"

\* the findings of a body call are the structural findings the taxonomy classifies
BodyFindingsAreExpected(schema, body, context) ==
    LET errors == IterErrors(schema, body)
        expected == { DriftFinding(ExpectedDrift(errors[i].kind, context), "body", errors[i].path) :
                        i \in {k \in 1..Len(errors) : ExpectedDrift(errors[k].kind, context) # "None"} }
    IN  {result.findings[i] : i \in 1..Len(result.findings)} = expected

\* C12: map_to_drift_type is a total function of (finding kind, context): for each
\* of the five recognized kinds and each of the three contexts it returns the drift
\* kind of that context and kind, and for every other kind it returns none; a
\* validation call reports exactly the findings so classified.
C12_ClassificationIsTheTaxonomy ==
    /\ \A kind \in ValidationErrorKind, context \in ValidationContext :
            map_to_drift_type(kind, context) = ExpectedDrift(kind, context)
    /\ (call.op = "request_body.validate" /\ call.body # NoBody) =>
            BodyFindingsAreExpected(found.op.request_body.schema, call.body, "RequestBody")
    /\ (call.op = "responses.validate" /\ call.body # NoBody
            /\ HasSchemaFor(found.op.responses, call.status)) =>
            BodyFindingsAreExpected(SelectSchema(found.op.responses, call.status), call.body, "ResponseBody")

\* a request body with a missing required property and a value below its minimum:
\* the first is classified, the second is not
C12_Witness ==
    /\ call.op = "request_body.validate" /\ call.body # NoBody
    /\ KindsOf(IterErrors(found.op.request_body.schema, call.body)) = {"Required", "Minimum"}
    /\ DriftsOf(result) = {"RequestBodyMissingRequired"}

-----------------------------------------------------------------------------
(* Claims about one call on a parameter set *)

FindingsOf(res) == {res.findings[i] : i \in 1..Len(res.findings)}

\* the i-th declared parameter of the called list has a value in the observed map
IsObserved(i) == call.params[CalledList[i].name] # NoValue

\* the classified findings of the i-th declared parameter on its observed value
ClassifiedOf(i) ==
    LET pv == CalledList[i]
        errors == IterErrors(pv.validator, call.params[pv.name])
    IN  { DriftFinding(ExpectedDrift(errors[k].kind, "Parameter"), pv.name, errors[k].path) :
            k \in {j \in 1..Len(errors) : errors[j].kind \in RecognizedKinds} }

AbsentRequired == {i \in 1..Len(CalledList) : CalledList[i].required /\ ~IsObserved(i)}

\* C13: in one call on a parameter set, every declared parameter whose name is in
\* the observed map is validated and all its classified findings are reported: a
\* finding of a recognized kind is never dropped because a parameter declared
\* earlier also produced findings.
C13_NoClassifiedFindingDropped ==
    (IsParameterCall /\ AbsentRequired = {}) =>
        \A i \in 1..Len(CalledList) :
            IsObserved(i) => ClassifiedOf(i) \subseteq FindingsOf(result)

\* C14: in one call on a parameter set, when a declared required parameter is absent
\* from the observed map, the call reports a ParameterMissingRequired finding for
\* the first such parameter in declaration order and stops there: the result
\* never holds more than one missing-required finding.
C14_FirstMissingRequiredIsReported ==
    (IsParameterCall /\ AbsentRequired # {}) =>
        LET first == CHOOSE i \in AbsentRequired : \A k \in AbsentRequired : i <= k
        IN  /\ HasMissingRequired(result, CalledList[first].name)
            /\ Cardinality({k \in 1..Len(result.findings) :
                                result.findings[k].drift = "ParameterMissingRequired"}) = 1

-----------------------------------------------------------------------------
(* Claims about content that is not JSON *)

\* the content map has media types, and application/json is not one of them
NonJsonOnly(content) == content.json = "absent" /\ content.other

\* the (path, operation) position of build_api_validator's loops is at an operation
AtOperation ==
    /\ path_idx \in 1..Len(contract.paths)
    /\ ~contract.paths[path_idx].isRef
    /\ op_idx \in 1..Len(contract.paths[path_idx].ops)

CurrentEntry == contract.paths[path_idx].ops[op_idx]

DeclaresNonJsonRequestBody(o) ==
    /\ o.request_body.present
    /\ ResolveRequestBody(o.request_body.body, contract).ok
    /\ NonJsonOnly(ResolveRequestBody(o.request_body.body, contract).item.content)

\* C15: a request body the contract declares with only non-JSON content types
\* compiles as "no schema": the build does not stop at it, and structural
\* validation is skipped for that request body.
C15_NonJsonRequestBodyCompilesAsNoSchema ==
    /\ (pc = "failed" /\ AtOperation /\ DeclaresNonJsonRequestBody(CurrentEntry.operation))
        => result.msg # "must have application/json content"
    /\ pc = "done" =>
        \A e \in router.ops :
            DeclaresNonJsonRequestBody(DeclaredAt(e.pattern, e.method))
                => ~e.validator.request_body.present

\* the contract declares, for the status code, a response whose content holds no
\* application/json media type: only other media types, or no content at all
DeclaresUncheckedResponse(o, status_code) ==
    \E i \in 1..Len(o.responses.responses) :
        LET entry == o.responses.responses[i]
            resolved == ResolveResponse(entry.response, contract)
        IN  /\ ~entry.status.range /\ entry.status.code = status_code
            /\ resolved.ok
            /\ (NonJsonOnly(resolved.item.content) \/ ContentIsEmpty(resolved.item.content))

\* C16: for a status code whose declared response has only non-JSON content types
\* (or no content), structural validation is skipped: validating any present body
\* with that status code succeeds, and the body is not checked against any other
\* schema such as the default response schema.
C16_UncheckedResponseIsSkipped ==
    (call.op = "responses.validate" /\ call.body # NoBody) =>
        \A e \in router.ops :
            ( /\ e.validator = found.op
              /\ DeclaresUncheckedResponse(DeclaredAt(e.pattern, e.method), call.status) )
                => result.kind = "Ok"

-----------------------------------------------------------------------------
(* Claims about the selection of the response schema and about absent bodies *)

\* the schema add_response registered for exactly this status code
ExactSchema(rv, status_code) == (CHOOSE e \in rv.exact : e.status = status_code).schema

\* C17: response validation selects the schema registered for the exact status
\* code when there is one, otherwise the default schema when there is one, and
\* otherwise fails with the "no schema for status code" error, which is not a
\* drift finding; the default is never used when an exact schema exists.
C17_ExactThenDefaultThenNoSchema ==
    call.op = "responses.validate" =>
        LET rv == found.op.responses
        IN  IF HasExact(rv, call.status)
            THEN call.body # NoBody =>
                    /\ BodyFindingsAreExpected(ExactSchema(rv, call.status), call.body, "ResponseBody")
                    /\ result.kind = IF result.findings = <<>> THEN "Ok" ELSE DriftKind
            ELSE IF rv.default.present
            THEN call.body # NoBody =>
                    /\ BodyFindingsAreExpected(rv.default.schema, call.body, "ResponseBody")
                    /\ result.kind = IF result.findings = <<>> THEN "Ok" ELSE DriftKind
            ELSE /\ result.kind = "NoSchemaForStatusCode"
                 /\ result.kind # DriftKind
                 /\ result.findings = <<>>

\* an exact schema and a default schema that disagree on the body: the findings
\* are those of the exact schema
C17_Witness ==
    /\ call.op = "responses.validate" /\ call.body # NoBody
    /\ HasExact(found.op.responses, call.status)
    /\ found.op.responses.default.present
    /\ IsValid(found.op.responses.default.schema, call.body)
    /\ result.kind = DriftKind

\* C18: a request body validator called with an absent body yields exactly one
\* RequestBodyMissingRequired finding with location "body" when required is true,
\* and succeeds when required is false; the compiled schema is not evaluated.
C18_AbsentRequestBody ==
    (call.op = "request_body.validate" /\ call.body = NoBody) =>
        IF found.op.request_body.required
        THEN /\ result.kind = DriftKind
             /\ result.findings = <<DriftFinding("RequestBodyMissingRequired", "body", "")>>
        ELSE result = Ok

\* a required request body that is absent, for a schema that would find more
C18_Witness ==
    /\ call.op = "request_body.validate" /\ call.body = NoBody
    /\ found.op.request_body.required
    /\ found.op.request_body.schema = SUser
    /\ Len(result.findings) = 1

-----------------------------------------------------------------------------
(* Claims about concurrent callers *)

\* what the call a thread has returned from returns when it is the only call made
\* on the index build_api_validator returned
AloneResult(th) ==
    IF th.op = "find_operation"
    THEN FindOperationResult(ServedIndex, th.args.path, th.args.method)
    ELSE LET op == FindOperationValidator(ServedIndex, th.foundAt.path, th.foundAt.method)
         IN  IF th.op = "responses.validate"
             THEN ResponseValidate(op.responses, th.args.status, th.args.body)
             ELSE validate_query(op.parameters, th.args.params)

HasReturned(th) == th.pc = "idle" /\ th.op # "none"

\* C19: once build_api_validator has returned, no lookup or validation call changes
\* the route index or a validator it owns, and for any interleaving of concurrent
\* find_operation and validate calls each call returns what it returns alone.
C19_ConcurrentCallsReturnAsAlone ==
    /\ router = ServedIndex
    /\ \A t \in Threads :
        HasReturned(threads[t]) =>
            /\ threads[t].result = AloneResult(threads[t])
            /\ threads[t].found.some =>
                threads[t].found.op =
                    FindOperationValidator(ServedIndex, threads[t].foundAt.path, threads[t].foundAt.method)

\* one thread has returned from a validation with findings, the other from a
\* lookup of the operation the first one validates with
C19_Witness ==
    /\ HasReturned(threads[1]) /\ threads[1].op = "responses.validate"
    /\ threads[1].result.kind = DriftKind
    /\ HasReturned(threads[2]) /\ threads[2].op = "find_operation"
    /\ threads[2].result = Ok
    /\ threads[2].foundAt = threads[1].foundAt

-----------------------------------------------------------------------------
(* Claims about schemas that fail to compile *)

\* a route pattern as the contract writes it
PathText(path) ==
    IF path = <<"users">> THEN "/users"
    ELSE IF path = <<"users", "{id}">> THEN "/users/{id}"
    ELSE IF path = <<"users", "me">> THEN "/users/me"
    ELSE IF path = <<"users", "{name}">> THEN "/users/{name}"
    ELSE "/users/{}"

\* the message of the error has the text formatted into it
Names(res, text) == \E i \in 1..Len(res.args) : res.args[i] = text

\* every schema an operation validator holds compiled
ValidatorIsCompiled(v) ==
    /\ v.request_body.present => WellFormed(v.request_body.schema)
    /\ \A e \in v.responses.exact : WellFormed(e.schema)
    /\ v.responses.default.present => WellFormed(v.responses.default.schema)
    /\ \A loc \in Locations :
        \A i \in 1..Len(v.parameters[loc]) : WellFormed(v.parameters[loc][i].validator)

\* C20: when a schema fails to compile during build, the whole build is aborted
\* with an error that names the path and the operation (method) the schema
\* belongs to, and no validator set is returned.
C20_CompileErrorNamesPathAndOperation ==
    /\ (pc = "failed" /\ result.msg = "Failed to compile schema") =>
        /\ result.kind = "SchemaCompilationError"
        /\ AtOperation
        /\ Names(result, PathText(contract.paths[path_idx].path))
        /\ \/ Names(result, CurrentEntry.method_str)
           \/ Names(result, from_str(CurrentEntry.method_str))
    /\ pc = "failed" => (~found.some /\ call = NoCall)
    /\ pc = "done" => \A e \in router.ops : ValidatorIsCompiled(e.validator)

-----------------------------------------------------------------------------
(* The reference resolver *)

\* the entries an operation declares that may be references, each with the
\* category the builder resolves it in
RefEntries(o) ==
    {<<"parameters", o.parameters[i]>> : i \in 1..Len(o.parameters)}
    \cup (IF o.request_body.present THEN {<<"requestBodies", o.request_body.body>>} ELSE {})
    \cup {<<"responses", o.responses.responses[i].response>> : i \in 1..Len(o.responses.responses)}
    \cup (IF o.responses.default.present THEN {<<"responses", o.responses.default.response>>} ELSE {})

CategoryPrefix(category) ==
    IF category = "parameters" THEN ParametersPrefix
    ELSE IF category = "requestBodies" THEN RequestBodiesPrefix
    ELSE ResponsesPrefix

CategoryMap(category) ==
    IF category = "parameters" THEN ComponentParameters
    ELSE IF category = "requestBodies" THEN ComponentRequestBodies
    ELSE ComponentResponses

ResolveIn(category, ref_or, spec) ==
    IF category = "parameters" THEN ResolveParameter(ref_or, spec)
    ELSE IF category = "requestBodies" THEN ResolveRequestBody(ref_or, spec)
    ELSE ResolveResponse(ref_or, spec)

\* the reference has the prefix of the category and does not lead, in one hop,
\* to an inline definition
BrokenLink(category, ref_or, spec) ==
    /\ ref_or.isRef
    /\ ref_or.prefix = CategoryPrefix(category)
    /\ \/ ~spec.hasComponents
       \/ ref_or.name \notin DOMAIN CategoryMap(category)
       \/ CategoryMap(category)[ref_or.name].isRef

WrongCategory(category, ref_or) == ref_or.isRef /\ ref_or.prefix # CategoryPrefix(category)

\* C21: the resolver resolves one hop only. An inline entry is returned as is; a
\* reference whose components section or name is missing, or whose target is
\* itself a reference, fails with "Reference not found" naming the reference
\* string; a reference with an inline target resolves to that target. A build
\* that stops with this error stops at an operation that declares such a reference.
C21_ResolverIsOneHop ==
    /\ \A o \in DeclaredOperations : \A e \in RefEntries(o) :
          LET r == ResolveIn(e[1], e[2], contract)
          IN  /\ ~e[2].isRef => (r.ok /\ r.item = e[2].item)
              /\ BrokenLink(e[1], e[2], contract) =>
                    /\ ~r.ok
                    /\ r.err.kind = "SchemaCompilationError"
                    /\ r.err.msg = "Reference not found"
                    /\ r.err.args = <<ReferenceText(e[2])>>
              /\ (e[2].isRef /\ r.ok) =>
                    /\ ~CategoryMap(e[1])[e[2].name].isRef
                    /\ r.item = CategoryMap(e[1])[e[2].name].item
    /\ (pc = "failed" /\ result.msg = "Reference not found") =>
          /\ AtOperation
          /\ \E e \in RefEntries(CurrentEntry.operation) :
                /\ BrokenLink(e[1], e[2], contract)
                /\ Names(result, ReferenceText(e[2]))

\* a build stopped at a parameter reference whose target is itself a reference
C21_Witness ==
    /\ pc = "failed"
    /\ result.msg = "Reference not found"
    /\ Names(result, "#/components/parameters/Alias")
    /\ contract.hasComponents

\* C22: a reference whose string does not begin with the prefix of the category
\* it is resolved in fails with a SchemaCompilationError "Invalid reference"
\* naming the reference and the expected prefix, also when the name exists in
\* the sub-map of the category the reference does name; a build that stops with
\* this error stops at an operation that declares such a reference.
C22_WrongPrefixIsACompilationError ==
    /\ \A o \in DeclaredOperations : \A e \in RefEntries(o) :
          WrongCategory(e[1], e[2]) =>
              LET r == ResolveIn(e[1], e[2], contract)
              IN  /\ ~r.ok
                  /\ r.err.kind = "SchemaCompilationError"
                  /\ r.err.msg = "Invalid reference"
                  /\ Names(r.err, ReferenceText(e[2]))
                  /\ Names(r.err, CategoryPrefix(e[1]))
    /\ (pc = "failed" /\ result.msg = "Invalid reference") =>
          /\ AtOperation
          /\ \E e \in RefEntries(CurrentEntry.operation) :
                /\ WrongCategory(e[1], e[2])
                /\ Names(result, ReferenceText(e[2]))
                /\ Names(result, CategoryPrefix(e[1]))

\* a build stopped at a parameter that refers to a response the components declare
C22_Witness ==
    /\ pc = "failed"
    /\ result.msg = "Invalid reference"
    /\ Names(result, "#/components/responses/NotFound")
    /\ Names(result, "#/components/parameters/")
    /\ contract.hasComponents
    /\ "NotFound" \in DOMAIN ComponentResponses

-----------------------------------------------------------------------------
(* Undeclared observed parameters *)

DeclaredNames == {CalledList[i].name : i \in 1..Len(CalledList)}

\* the observed map agrees with the map of the call on every declared name
AgreesOnDeclared(params) == \A n \in DeclaredNames : params[n] = call.params[n]

\* C23: the result of a call on a parameter set depends only on the observed
\* entries whose names are declared for the location: every observed map that
\* agrees with the map of the call on the declared names gives the same result,
\* and every finding of the result is located at a declared parameter.
C23_UndeclaredEntriesDoNotMatter ==
    IsParameterCall =>
        /\ \A params \in ObservedMaps :
              AgreesOnDeclared(params) => validate_parameters(CalledList, params) = result
        /\ result.kind = "ValidationFailed" =>
              \A f \in FindingsOf(result) : f.location[1] \in DeclaredNames

\* a call with a declared parameter and two observed entries that are not declared
C23_Witness ==
    /\ IsParameterCall
    /\ DeclaredNames = {"id"}
    /\ call.params["id"] # NoValue
    /\ call.params["limit"] # NoValue
    /\ call.params["extra"] # NoValue

-----------------------------------------------------------------------------
(* The findings of a body, in order *)

\* the structural findings of the body that classify to a drift kind, in the
\* order the structural validator reports them
ClassifiedErrors(schema, body, context) ==
    LET Classifies(e) == ExpectedDrift(e.kind, context) # "None"
    IN  SelectSeq(IterErrors(schema, body), Classifies)

\* one drift finding per classified structural finding, in the same order
ReportsInOrder(schema, body, context) ==
    LET classified == ClassifiedErrors(schema, body, context)
    IN  result.findings =
            [i \in 1..Len(classified) |->
                DriftFinding(ExpectedDrift(classified[i].kind, context), "body", classified[i].path)]

\* the schema a response call validates the body against
CalledResponseSchema == SelectSchema(found.op.responses, call.status)

\* C24: for a present request or response body the findings reported are exactly
\* the structural findings that classify to a drift kind, one finding for each,
\* in the order the structural validator reports them.
C24_BodyFindingsInOrder ==
    /\ (call.op = "request_body.validate" /\ call.body # NoBody) =>
            ReportsInOrder(found.op.request_body.schema, call.body, "RequestBody")
    /\ (call.op = "responses.validate" /\ call.body # NoBody
            /\ HasSchemaFor(found.op.responses, call.status)) =>
            ReportsInOrder(CalledResponseSchema, call.body, "ResponseBody")

\* a response body with two classified findings at two places: a property of the
\* wrong type, reported first, and a missing required property
C24_Witness ==
    /\ call.op = "responses.validate"
    /\ call.body # NoBody
    /\ HasSchemaFor(found.op.responses, call.status)
    /\ Len(result.findings) = 2
    /\ result.findings[1] = DriftFinding("ResponseBodyTypeMismatch", "body", "/age")
    /\ result.findings[2] = DriftFinding("ResponseBodyMissingRequired", "body", "")

-----------------------------------------------------------------------------
(* HTTP method tokens *)

\* the spellings of the eight methods, and tokens that spell none of them
Spellings ==
    [m \in HttpMethod |->
        IF m = "GET" THEN {"get", "Get", "gEt", "GET"}
        ELSE IF m = "POST" THEN {"post", "Post", "pOsT", "POST"}
        ELSE IF m = "PUT" THEN {"put", "Put", "PUT"}
        ELSE IF m = "DELETE" THEN {"delete", "Delete", "DELETE"}
        ELSE IF m = "PATCH" THEN {"patch", "Patch", "PATCH"}
        ELSE IF m = "HEAD" THEN {"head", "Head", "HEAD"}
        ELSE IF m = "OPTIONS" THEN {"options", "Options", "OPTIONS"}
        ELSE {"trace", "Trace", "TRACE"}]

OtherTokens == {"connect", "Connect", "CONNECT", "gets", "GETS", "query", "QUERY", "", "None"}

SpelledMethods(token) == {m \in HttpMethod : token \in Spellings[m]}

\* the tokens of the operations the build has gone through at the current path
TokensDone ==
    IF pc = "op" /\ AtOperation
    THEN {contract.paths[path_idx].ops[j].method_str : j \in 1..(op_idx - 1)}
    ELSE IF pc = "op"
    THEN {contract.paths[path_idx].ops[j].method_str : j \in 1..Len(contract.paths[path_idx].ops)}
    ELSE {}

\* the tokens of the operations of the paths the build has completed
TokensRegistered ==
    UNION { {contract.paths[i].ops[j].method_str : j \in 1..Len(contract.paths[i].ops)} :
            i \in {k \in 1..Len(contract.paths) :
                        /\ ~contract.paths[k].isRef
                        /\ pc \in {"path", "op", "done"}
                        /\ (k < path_idx \/ pc = "done")} }

\* C25: a method token parses, whatever its case, into the one of the eight methods
\* it spells, and a token that spells none of them is rejected; the build goes
\* past an operation only when its token spells a method, registers it under that
\* method, and stops with "Unknown HTTP method" naming the token exactly when it
\* comes to an operation whose token spells none.
C25_MethodTokensParseCaseInsensitively ==
    /\ \A m \in HttpMethod : \A token \in Spellings[m] : from_str(token) = m
    /\ \A token \in OtherTokens : from_str(token) = NoMethod
    /\ \A token \in TokensDone \cup TokensRegistered : SpelledMethods(token) # {}
    /\ \A e \in operations_map : pc = "op" =>
            \E token \in TokensDone : e.method \in SpelledMethods(token)
    /\ (pc = "failed" /\ result.msg = "Unknown HTTP method") =>
            /\ AtOperation
            /\ SpelledMethods(CurrentEntry.method_str) = {}
            /\ result.kind = "SchemaCompilationError"
            /\ result.args = <<CurrentEntry.method_str>>
    /\ pc = "done" =>
            \A i \in 1..Len(contract.paths) : ~contract.paths[i].isRef =>
                \A j \in 1..Len(contract.paths[i].ops) :
                    SpelledMethods(contract.paths[i].ops[j].method_str) # {}

\* a build that registered an operation keyed pOsT as POST and stopped at one keyed connect
C25_Witness ==
    /\ pc = "failed"
    /\ result.msg = "Unknown HTTP method"
    /\ result.args = <<"connect">>
    /\ op_idx = 2
    /\ \E e \in operations_map : e.method = "POST"
    /\ contract.paths[path_idx].ops[1].method_str = "pOsT"

-----------------------------------------------------------------------------
(* Cookie parameters *)

\* the entry resolves to a parameter with location cookie
IsCookie(ref_or) ==
    LET resolved == ResolveParameter(ref_or, contract)
    IN  resolved.ok /\ resolved.item.loc = "cookie"

\* the declared parameters without the cookie parameters
WithoutCookies(parameters) ==
    LET Kept(ref_or) == ~IsCookie(ref_or)
    IN  SelectSeq(parameters, Kept)

\* the names the lists of a compiled parameter set hold
CompiledNames(pv) ==
    UNION { {pv[loc][k].name : k \in 1..Len(pv[loc])} : loc \in Locations }

\* the name is declared only by cookie parameters
OnlyCookie(parameters, name) ==
    \A i \in 1..Len(parameters) :
        LET resolved == ResolveParameter(parameters[i], contract)
        IN  (resolved.ok /\ resolved.item.name = name) => resolved.item.loc = "cookie"

\* C26: a parameter declared with location cookie is dropped at compile time.
\* Compiling the parameters of an operation gives what compiling them without
\* the cookie parameters gives, the same lists or the same error; the parameter
\* set registered for an operation holds no name that only cookie parameters
\* declare; and a build that stops at an operation stops with the error that
\* the operation without its cookie parameters gives.
C26_CookieParametersAreDropped ==
    /\ pc # "start" =>
          \A o \in DeclaredOperations :
              build_parameters_validator(contract, registry, o.parameters)
                  = build_parameters_validator(contract, registry, WithoutCookies(o.parameters))
    /\ \A e \in router.ops :
          LET declared == DeclaredAt(e.pattern, e.method).parameters
          IN  /\ e.validator.parameters
                    = build_parameters_validator(contract, registry, WithoutCookies(declared)).value
              /\ \A i \in 1..Len(declared) :
                    (IsCookie(declared[i]) /\ OnlyCookie(declared, declared[i].item.name)) =>
                        declared[i].item.name \notin CompiledNames(e.validator.parameters)
    /\ (pc = "failed" /\ AtOperation /\ from_str(CurrentEntry.method_str) # NoMethod) =>
          LET o == CurrentEntry.operation
              without == [o EXCEPT !.parameters = WithoutCookies(o.parameters)]
          IN  result = build_operation_validator(contract, registry, without).err

\* an operation with a path parameter and a cookie parameter whose schema does not
\* compile is registered with the path parameter alone
C26_Witness ==
    /\ pc = "done"
    /\ \E e \in router.ops :
          LET declared == DeclaredAt(e.pattern, e.method).parameters
          IN  /\ Len(declared) = 2
              /\ IsCookie(declared[2])
              /\ ~WellFormed(declared[2].item.schema)
              /\ Len(e.validator.parameters.path) = 1
              /\ e.validator.parameters.query = <<>>
              /\ e.validator.parameters.header = <<>>

-----------------------------------------------------------------------------
(* The frame of add_operation *)

\* the step is a call add_operation(p, m, v)
IsAddOperation == adds' = adds + 1 /\ call'.op = "add_operation"

\* C27: add_operation(p, m, v) changes only the method map of pattern p: for
\* every pattern p' of the route index before the call that is not p, the method
\* map of p' after the call is the method map of p' before the call, also when p
\* is a static path that p' matches as a concrete path.
C27_AddOperationChangesOnlyItsPattern ==
    [][IsAddOperation =>
            \A q \in router.routes :
                q # call'.path => MethodMap(router', q) = MethodMap(router, q)]_vars

-----------------------------------------------------------------------------
(* The registry of a build *)

\* the compiled schemas an operation validator holds
CompiledSchemas(v) ==
    (IF v.request_body.present THEN {v.request_body.schema} ELSE {})
    \cup {e.schema : e \in v.responses.exact}
    \cup (IF v.responses.default.present THEN {v.responses.default.schema} ELSE {})
    \cup UNION { {v.parameters[loc][i].validator : i \in 1..Len(v.parameters[loc])} : loc \in Locations }

\* nothing is compiled while there is no registry, the registry is the one built
\* from the components of the contract, and every compiled schema holds it
OneRegistry ==
    /\ pc = "start" => ~registry.built
    /\ ~registry.built =>
          /\ router.ops = {}
          /\ operations_map = {}
          /\ completed_operations = 0
    /\ registry.built =>
          /\ contract.hasComponents
          /\ registry = build_registry(contract).value
    /\ \A e \in router.ops \cup operations_map :
          \A schema \in CompiledSchemas(e.validator) : schema.registry = registry

\* the registry is assigned in the first step of the build and in no other step
RegistryBuiltOnce ==
    registry' # registry => (pc = "start" /\ ~registry.built /\ registry'.built)

\* C28: during one build the schema registry is constructed exactly once, from
\* the components section of the contract and before any schema is compiled, and
\* every schema compiled in that build, of a parameter, a request body, an exact
\* response or a default response, is given that registry.
C28_OneRegistryForEveryCompilation == []OneRegistry /\ [][RegistryBuiltOnce]_vars

\* a finished build that registered an operation with a parameter, a request
\* body, an exact response and a default response, all compiled
C28_Witness ==
    /\ pc = "done"
    /\ registry.built
    /\ \E e \in router.ops :
          /\ e.validator.parameters.path # <<>>
          /\ e.validator.request_body.present
          /\ e.validator.responses.exact # {}
          /\ e.validator.responses.default.present
          /\ \A schema \in CompiledSchemas(e.validator) : schema.registry = registry

-----------------------------------------------------------------------------
(* Responses under a range key *)

\* the status code lies in the range NXX
InRange(status_code, digit) == status_code \div 100 = digit

\* the declared responses without the entries under a range key
WithoutRanges(responses) ==
    LET IsCode(entry) == ~entry.status.range
    IN  [responses EXCEPT !.responses = SelectSeq(responses.responses, IsCode)]

\* the operation declares a range that holds the status code and no entry for the code itself
DeclaresOnlyRangeFor(o, status_code) ==
    /\ \E i \in 1..Len(o.responses.responses) :
          /\ o.responses.responses[i].status.range
          /\ InRange(status_code, o.responses.responses[i].status.code)
    /\ \A i \in 1..Len(o.responses.responses) :
          ~o.responses.responses[i].status.range => o.responses.responses[i].status.code # status_code

\* the operation declares a default response with a JSON schema
DeclaresDefaultSchema(o) ==
    /\ o.responses.default.present
    /\ ResolveResponse(o.responses.default.response, contract).ok
    /\ ResolveResponse(o.responses.default.response, contract).item.content.json = "schema"

\* C29: a response declared under a status-code range key is never registered.
\* The response validator of a registered operation is what its declared
\* responses without the range entries compile to, and holds exact schemas for
\* declared codes only; validating a response whose status code lies in a
\* declared range and has no entry of its own validates the body against the
\* default schema when the operation declares one, and otherwise fails with
\* NoSchemaForStatusCode.
C29_RangeResponsesAreNotRegistered ==
    \A e \in router.ops :
        LET o == DeclaredAt(e.pattern, e.method)
        IN  /\ e.validator.responses
                  = build_response_validator(contract, registry, WithoutRanges(o.responses)).value
            /\ \A x \in e.validator.responses.exact :
                  \E i \in 1..Len(o.responses.responses) :
                      /\ ~o.responses.responses[i].status.range
                      /\ o.responses.responses[i].status.code = x.status
            /\ ( /\ call.op = "responses.validate"
                 /\ e.validator = found.op
                 /\ DeclaresOnlyRangeFor(o, call.status) ) =>
                  IF DeclaresDefaultSchema(o)
                  THEN /\ found.op.responses.default.present
                       /\ result = IF call.body = NoBody THEN Ok
                                   ELSE ValidateValue(found.op.responses.default.schema, call.body,
                                                      "ResponseBody", "body")
                  ELSE /\ result.kind = "NoSchemaForStatusCode"
                       /\ result.kind # DriftKind

\* a body that fits the schema declared under 2XX is validated with status 200
\* against the default schema and reported as drift
C29_Witness ==
    /\ call.op = "responses.validate"
    /\ call.status = 200
    /\ call.body # NoBody
    /\ result.kind = DriftKind
    /\ \E e \in router.ops :
          LET o == DeclaredAt(e.pattern, e.method)
          IN  /\ e.validator = found.op
              /\ DeclaresOnlyRangeFor(o, 200)
              /\ DeclaresDefaultSchema(o)
              /\ \E i \in 1..Len(o.responses.responses) :
                    /\ o.responses.responses[i].status.range
                    /\ IsValid(o.responses.responses[i].response.item.content.schema, call.body)

\* the same call on an operation without a default response
C29_WitnessNoDefault ==
    /\ call.op = "responses.validate"
    /\ call.status = 200
    /\ result.kind = "NoSchemaForStatusCode"
    /\ \E e \in router.ops :
          /\ e.validator = found.op
          /\ DeclaresOnlyRangeFor(DeclaredAt(e.pattern, e.method), 200)

-----------------------------------------------------------------------------
(* Termination of the build *)

\* build_api_validator has returned
Returned == pc \in {"done", "failed"}

\* the position of the loops is inside the contract, and the count of completed
\* operations is the number of operations the loops have gone past
BuildProgress ==
    /\ completed_operations <= total_operations
    /\ total_operations <= CountOperations(contract.paths)
    /\ pc = "done" => result.kind = "Ok"
    /\ pc = "failed" => result.kind = "SchemaCompilationError"
    /\ pc \in {"path", "op"} => path_idx \in 1..(Len(contract.paths) + 1)
    /\ pc = "op" => (AtOperation \/ op_idx = Len(contract.paths[path_idx].ops) + 1)

\* C30: build_api_validator terminates on every finite contract, with a validator
\* or with an error, also when references of the components section point at each
\* other in a cycle; the number of completed operations it counts never exceeds
\* the total it computed up front.
C30_BuildTerminates == []BuildProgress /\ <>[]Returned

\* a build that returned an error for a parameter whose reference leads into
\* two component entries that refer to each other
C30_Witness ==
    /\ pc = "failed"
    /\ result.msg = "Reference not found"
    /\ Names(result, "#/components/parameters/LoopA")
    /\ ComponentParameters["LoopA"].isRef /\ ComponentParameters["LoopA"].name = "LoopB"
    /\ ComponentParameters["LoopB"].isRef /\ ComponentParameters["LoopB"].name = "LoopA"
    /\ completed_operations <= total_operations

\* a build that returned a validator after it counted every operation
C30_WitnessDone ==
    /\ pc = "done"
    /\ total_operations = 6
    /\ completed_operations = total_operations

====
